---- MODULE Spec2Model ----
(***************************************************************************)
(* Blood-donation coordination backend (backend/server.py).                *)
(*                                                                         *)
(* The state is the four collections of the document store, the wall clock *)
(* and the position and locals of each request handler in flight.  A       *)
(* handler is a coroutine: it runs without interruption from one await to  *)
(* the next, so one action is one database operation (taken at the moment  *)
(* the store executes it) followed by the handler's code up to the point   *)
(* where the next database operation is issued.                            *)
(*                                                                         *)
(* Time is counted in hours.  An Optional value is <<>> (None) or <<v>>.   *)
(* Documents are records; a document lacks a key when the record lacks the *)
(* field.  uuid4 identifiers are modelled by the position of the document  *)
(* in its collection (assigned when the document is inserted: no code      *)
(* reads an identifier between its generation and the insert).             *)
(* created_at of users, hospital_address, subject and body of             *)
(* notifications, description and radius_km are not modelled.              *)
(***************************************************************************)
EXTENDS Bags, FiniteSets, Integers, Sequences, TLC

VARIABLES users, blood_alerts, donor_responses, email_notifications, now, req

vars == <<users, blood_alerts, donor_responses, email_notifications, now, req>>
db == <<users, blood_alerts, donor_responses, email_notifications>>

-----------------------------------------------------------------------------
(* Bounds of the model *)

NReq == 2
MaxUsers == 3
MaxAlerts == 1
MaxTime == 1
RespondMaxUsers == 2
RespondMaxAlerts == 1
MatchMaxUsers == 3
MatchMaxAlerts == 1
AccountMaxUsers == 3
ReadMaxUsers == 3
ReadMaxAlerts == 2
ReadMaxTime == 3
StatsMaxAlerts == 1
CooldownMaxUsers == 2
CooldownMaxAlerts == 2
CooldownMaxSeasons == 1
DashboardMaxUsers == 1
NewestMaxUsers == 3
NewestMaxAlerts == 2

(* Program constants *)

CriticalHours == 2
HighHours == 6
DefaultHours == 24
CooldownDays == 90
MatchLimit == 100
ResponseLimit == 100
StaffAlertLimit == 100
DonorAlertLimit == 50
GroupLimit == 10
DonorEmailLimit == 50
StaffEmailLimit == 100
BcryptBytes == 72
TokenHours == 24

Req == 1..NReq

Null == <<>>
Some(v) == <<v>>
Val(o) == o[1]

\* Python truthiness of an Optional[str] and of an Optional[float]
Truthy(o) == o # Null /\ Val(o) # ""
TruthyNum(o) == o # Null /\ Val(o) # 0

Min(S) == CHOOSE x \in S : \A y \in S : x <= y

-----------------------------------------------------------------------------
(* Inputs *)

Reg(email, role, name, phone, hosp, bt, city, lat, lon, ldd) ==
    [email |-> email, password |-> "pw-" \o name, name |-> name, role |-> role,
     phone |-> phone, hospital_name |-> hosp, blood_type |-> bt, city |-> city,
     latitude |-> lat, longitude |-> lon, last_donation_date |-> ldd]

RegH1 == Reg("h1@x", "hospital_staff", "Sarah", Some("555-1"), Some("City General"),
             Null, Null, Null, Null, Null)
RegH2 == Reg("h2@x", "hospital_staff", "Omar", Null, Some("North Clinic"),
             Null, Null, Null, Null, Null)
\* a donor who never donated (backend_test.py test_donor_registration)
RegD1 == Reg("d1@x", "donor", "Mike", Some("555-2"), Null,
             Some("A+"), Some("Downtown"), Some(40), Some(-74), Null)
\* a donor whose last donation was exactly 90 days before the clock's origin
RegD2 == Reg("d2@x", "donor", "Lena", Null, Null,
             Some("A+"), Some("Uptown"), Some(0), Some(12), Some(0 - CooldownDays * 24))
\* a donor whose last donation was more than 90 days before the clock's origin
\* (a lab technician: the optional hospital_name is filled in as well)
RegD3 == Reg("d3@x", "donor", "Ravi", Some("555-3"), Some("Harbor Lab"),
             Some("A+"), Some("Harbor"), Null, Null, Some(0 - CooldownDays * 24 - 1))
\* a donor whose password is one byte longer than bcrypt reads
Bytes72 == "xxxxxxxxxxxxxxxxxxxxxxxxxxxxxxxxxxxxxxxxxxxxxxxxxxxxxxxxxxxxxxxxxxxxxxxx"
RegLong == [Reg("l1@x", "donor", "Lin", Null, Null, Some("O-"), Some("Lake"), Null, Null, Null)
               EXCEPT !.password = Bytes72 \o "A"]
RegBadRole == Reg("a@x", "admin", "Root", Null, Some("X"), Some("A+"), Some("Y"),
                  Null, Null, Null)
RegNoHospital == Reg("h3@x", "hospital_staff", "Nia", Null, Some(""),
                     Null, Null, Null, Null, Null)
RegNoBlood == Reg("d5@x", "donor", "Paul", Null, Null, Null, Some("Z"), Null, Null, Null)
RegNoCity == Reg("d4@x", "donor", "Quinn", Null, Null, Some("B+"), Null, Null, Null, Null)

RegInputs == {RegH1, RegH2, RegD3, RegBadRole, RegNoHospital, RegNoBlood, RegNoCity}

\* create_access_token: the claims of the signed token, "sub" and the "exp"
\* of lines 135-136, ACCESS_TOKEN_EXPIRE_MINUTES after the clock reading t
create_access_token(email, t) ==
    [kind |-> "jwt", sub |-> Some(email), exp |-> Some(t + TokenHours)]

\* bearer credentials: none, a string that does not decode, a signed token
\* without "sub", and the token issued for an email at hour 0
NoToken == [kind |-> "none", sub |-> Null, exp |-> Null]
Garbage == [kind |-> "garbage", sub |-> Null, exp |-> Null]
NoSub == [kind |-> "jwt", sub |-> Null, exp |-> Some(TokenHours)]
TokenFor(email) == create_access_token(email, 0)

TokenInputs ==
    {NoToken, Garbage, NoSub}
      \cup {TokenFor(e) : e \in {"h1@x", "h2@x", "d3@x"}}

AlertInputs ==
    { [blood_type |-> "A+", units_needed |-> 5, urgency_level |-> "critical"],
      [blood_type |-> "A+", units_needed |-> 2, urgency_level |-> "high"],
      [blood_type |-> "B+", units_needed |-> 1, urgency_level |-> "medium"] }

RespInputs ==
    { [response |-> "available", message |-> Some("on my way")],
      [response |-> "not_available", message |-> Null],
      [response |-> "maybe", message |-> Null] }

\* the path parameter alert_id: the ids of MaxAlerts alerts and one more
AlertIdInputs == 1..(MaxAlerts + 1)

\* the bodies of POST /login: stored and unknown emails, right and wrong passwords
LoginInputs ==
    [email : {"h1@x", "d3@x", "l1@x", "nobody@x"},
     password : {"pw-Sarah", "pw-Ravi", "guess", Bytes72 \o "A", Bytes72 \o "B"}]

Only(S, field, value) == {x \in S : x[field] = value}

\* the inputs of the specifications below
HighAlerts == Only(AlertInputs, "urgency_level", "high")
CriticalAlerts == Only(AlertInputs, "urgency_level", "critical")
ReadAlerts == AlertInputs \ HighAlerts
Accepting == Only(RespInputs, "response", "available")
FirstHospital == {TokenFor("h1@x")}
FirstStaff == {RegH1}
RespondRegs == {RegH1, RegD3}
RespondCallers == {TokenFor("d3@x"), TokenFor("h1@x")}
MatchRegs == {RegH1, RegD1, RegD2, RegD3}
MatchCallers == {TokenFor("d2@x"), TokenFor("d3@x")}
AccountRegs == {RegH1, RegD3, RegLong, RegBadRole, RegNoHospital, RegNoBlood, RegNoCity}
ReadRegs == {RegH1, RegH2, RegD3}
NewestRegs == {RegH1, RegD2, RegD3}
ReadHospitals == {TokenFor("h1@x"), TokenFor("h2@x")}
ReadDonors == {TokenFor("d3@x")}
ReadCallers == ReadHospitals \cup ReadDonors
\* the path parameter alert_id under SpecDetails: every stored id and one more
ReadAlertIds == 1..(ReadMaxAlerts + 1)

-----------------------------------------------------------------------------
(* Helpers of the program *)

\* bcrypt reads the first 72 bytes of a password and ignores the rest
Truncate(password) ==
    IF Len(password) <= BcryptBytes THEN password ELSE SubSeq(password, 1, BcryptBytes)

\* get_password_hash / verify_password (the salt is not modelled)
get_password_hash(password) == <<"bcrypt", Truncate(password)>>
verify_passwordAny(plain, hashed) == TRUE

verify_password(plain, hashed) == hashed = <<"bcrypt", Truncate(plain)>>

\* User(**doc): the pydantic view of a stored user document
ToUser(doc) ==
    [id |-> doc.id, email |-> doc.email, name |-> doc.name, role |-> doc.role,
     phone |-> doc.phone, hospital_name |-> doc.hospital_name,
     blood_type |-> doc.blood_type, city |-> doc.city,
     location |-> IF "location" \in DOMAIN doc THEN Some(doc.location) ELSE Null,
     last_donation_date |-> IF "last_donation_date" \in DOMAIN doc
                            THEN doc.last_donation_date ELSE Null,
     is_available |-> doc.is_available]

\* db.users.find_one({"email": email}): the first document in insertion order
FindUserByEmail(us, email) ==
    LET S == {i \in 1..Len(us) : us[i].email = email}
    IN  IF S = {} THEN Null ELSE Some(us[Min(S)])

\* db.blood_alerts.find_one({"id": alert_id})
FindAlert(as, alert_id) ==
    LET S == {i \in 1..Len(as) : as[i].id = alert_id}
    IN  IF S = {} THEN Null ELSE Some(as[Min(S)])

FindOwnAlertOfAnyone(as, alert_id, hospital_id) == FindAlert(as, alert_id)

\* db.blood_alerts.find_one({"id": alert_id, "hospital_id": hospital_id})
FindOwnAlert(as, alert_id, hospital_id) ==
    LET S == {i \in 1..Len(as) : as[i].id = alert_id /\ as[i].hospital_id = hospital_id}
    IN  IF S = {} THEN Null ELSE Some(as[Min(S)])

\* the documents of a bag that satisfy a filter; P is a set of documents
Restrict(bag, P) == [d \in BagToSet(bag) \cap P |-> bag[d]]

Max(S) == CHOOSE x \in S : \A y \in S : x >= y

\* cursor.sort(field, -1) on a bag of documents: the lists that hold every
\* copy of every document, newest first; documents with an equal value of
\* the field come in any order
RECURSIVE SortBagNewestFirst(_, _)
SortBagNewestFirst(bag, field) ==
    IF BagToSet(bag) = {} THEN {<<>>}
    ELSE LET newest == Max({d[field] : d \in BagToSet(bag)})
         IN  UNION {{<<d>> \o s : s \in SortBagNewestFirst(bag (-) SetToBag({d}), field)} :
                       d \in {e \in BagToSet(bag) : e[field] = newest}}

\* cursor.to_list(n) on a sequence
ToList(s, n) == IF Len(s) <= n THEN s ELSE SubSeq(s, 1, n)

\* the number of times document d stands in the returned list s
ListCopies(d, s) == Cardinality({k \in 1..Len(s) : s[k] = d})

\* the documents of the returned list s
ListDocs(s) == {s[k] : k \in 1..Len(s)}

\* list s is in the order of .sort(field, -1)
IsNewestFirst(s, field) ==
    \A i, j \in 1..Len(s) : i < j => s[i][field] >= s[j][field]

-----------------------------------------------------------------------------
(* Authentication: security = HTTPBearer() and get_current_user *)

AuthFailure(status, detail) == [status |-> status, detail |-> detail, user |-> Null]

\* HTTPBearer() with its default auto_error: a request without credentials is
\* answered by the framework before get_current_user runs, with 403 or with
\* 401 depending on the installed FastAPI release.
BearerMissing ==
    {AuthFailure(s, "Not authenticated") : s \in {401, 403}}

\* get_current_user up to its await (lines 141-145): the outcomes for a
\* request carrying tok at the clock reading t; jwt.decode rejects a token
\* whose "exp" has come; status 200 stands for "goes on to users.find_one"
DecodeToken(tok, t) ==
    IF tok.kind = "none" THEN BearerMissing
    ELSE IF tok.kind # "jwt"
    THEN {AuthFailure(401, "Invalid authentication credentials")}
    ELSE IF tok.exp # Null /\ Val(tok.exp) <= t
    THEN {AuthFailure(401, "Invalid authentication credentials")}
    ELSE IF tok.sub = Null
    THEN {AuthFailure(401, "Invalid authentication credentials")}
    ELSE {[status |-> 200, detail |-> "", user |-> Null]}

\* get_current_user from its await on (lines 147-150):
\* db.users.find_one({"email": email}) on the users stored at that moment
FindCurrentUser(us, email) ==
    LET user == FindUserByEmail(us, email)
    IN  IF user = Null THEN AuthFailure(401, "User not found")
        ELSE [status |-> 200, detail |-> "", user |-> Some(ToUser(Val(user)))]

-----------------------------------------------------------------------------
(* Request slots *)

Idle == [pc |-> "idle"]

\* a finished request: its endpoint, the credentials it carried, the user it
\* was authenticated as, and the HTTP status and detail of the answer
Done(ep, tok, user, status, detail) ==
    [pc |-> "done", ep |-> ep, tok |-> tok, user |-> user,
     status |-> status, detail |-> detail]

Free(p) == req[p].pc \in {"idle", "done"}

\* the arrival of a request for endpoint ep carrying tok: answered at once
\* when the token is rejected, otherwise suspended at users.find_one in the
\* slot value pending
Arrival(ep, tok, pending) ==
    {IF auth.status # 200 THEN Done(ep, tok, Null, auth.status, auth.detail) ELSE pending :
        auth \in DecodeToken(tok, now)}

\* request p of endpoint ep is suspended at the find_one of get_current_user
AtFindUser(p, ep) == req[p].pc = "find_user" /\ req[p].ep = ep

At(p, pc) == req[p].pc = pc

Init ==
    /\ users = <<>>
    /\ blood_alerts = <<>>
    /\ donor_responses = EmptyBag
    /\ email_notifications = EmptyBag
    /\ now = 0
    /\ req = [p \in Req |-> Idle]

\* the wall clock advances between the steps of the handlers
Tick ==
    /\ now < MaxTime
    /\ now' = now + 1
    /\ UNCHANGED <<db, req>>

-----------------------------------------------------------------------------
(* POST /register *)

RegistrationErrorNoCity(d) ==
    IF d.role = "hospital_staff"
    THEN IF ~Truthy(d.hospital_name)
         THEN Some("Hospital name is required for hospital staff") ELSE Null
    ELSE IF d.role = "donor"
    THEN IF ~Truthy(d.blood_type)
         THEN Some("Blood type and city are required for donors") ELSE Null
    ELSE Some("Role must be 'hospital_staff' or 'donor'")

RegistrationError(d) ==
    IF d.role = "hospital_staff"
    THEN IF ~Truthy(d.hospital_name)
         THEN Some("Hospital name is required for hospital staff") ELSE Null
    ELSE IF d.role = "donor"
    THEN IF ~Truthy(d.blood_type) \/ ~Truthy(d.city)
         THEN Some("Blood type and city are required for donors") ELSE Null
    ELSE Some("Role must be 'hospital_staff' or 'donor'")

\* user_dict as built by lines 224-235 (the id is filled in at the insert)
BuildUserDict(d) ==
    LET base == [d EXCEPT !.password = get_password_hash(d.password)]
                  @@ [id |-> 0, is_available |-> TRUE]
    IN  IF d.role = "donor" /\ TruthyNum(d.latitude) /\ TruthyNum(d.longitude)
        THEN base @@ [location |-> [type |-> "Point",
                                    coordinates |-> <<Val(d.longitude), Val(d.latitude)>>]]
        ELSE base

InsertsInFlight(pc) == Cardinality({q \in Req : req[q].pc = pc})

\* find_one by email, the validation, and the construction of user_dict
Register(p, regs, max_users) ==
    /\ Free(p)
    /\ Len(users) + InsertsInFlight("insert_user") < max_users
    /\ \E d \in regs :
          LET existing_user == FindUserByEmail(users, d.email)
              err == RegistrationError(d)
          IN  req' = [req EXCEPT ![p] =
                  IF existing_user # Null
                  THEN Done("register", NoToken, Null, 400, "Email already registered")
                  ELSE IF err # Null
                  THEN Done("register", NoToken, Null, 400, Val(err))
                  ELSE [pc |-> "insert_user", ep |-> "register",
                        user_dict |-> BuildUserDict(d)]]
    /\ UNCHANGED <<db, now>>

\* db.users.insert_one(user_dict) and the answer with the access token
RegisterInsert(p) ==
    /\ At(p, "insert_user")
    /\ LET doc == [req[p].user_dict EXCEPT !.id = Len(users) + 1]
       IN  /\ users' = Append(users, doc)
           /\ req' = [req EXCEPT ![p] =
                  Done("register", create_access_token(doc.email, now), Some(ToUser(doc)),
                       200, "")]
    /\ UNCHANGED <<blood_alerts, donor_responses, email_notifications, now>>

-----------------------------------------------------------------------------
(* POST /alerts: create_blood_alert and notify_matching_donors *)

ExpiryHoursNoHigh(urgency_level) ==
    IF urgency_level = "critical" THEN CriticalHours ELSE DefaultHours

\* lines 278-283: the hours added to utcnow() for expires_at
ExpiryHours(urgency_level) ==
    IF urgency_level = "critical" THEN CriticalHours
    ELSE IF urgency_level = "high" THEN HighHours
    ELSE DefaultHours

\* BloodAlert(...) with created_at read from the clock at created and
\* expires_at computed from a second reading of the clock at read
BuildAlert(user, a, created, read) ==
    [id |-> 0, hospital_id |-> user.id, hospital_name |-> Val(user.hospital_name),
     blood_type |-> a.blood_type, units_needed |-> a.units_needed,
     urgency_level |-> a.urgency_level, status |-> "active",
     created_at |-> created, expires_at |-> Some(read + ExpiryHours(a.urgency_level))]

MayCreateAlertsAnyone(user) == TRUE

\* line 259
MayCreateAlerts(user) == user.role = "hospital_staff"

\* the requests of create_blood_alert that have not yet stored their alert
CreatesInFlight ==
    Cardinality({q \in Req : \/ req[q].pc = "insert_alert"
                             \/ AtFindUser(q, "create_blood_alert")})

\* the arrival of POST /alerts: the token is decoded
CreateAlert(p, toks, alerts, max_alerts) ==
    /\ Free(p)
    /\ Len(blood_alerts) + CreatesInFlight < max_alerts
    /\ \E tok \in toks, a \in alerts :
          \E next \in Arrival("create_blood_alert", tok,
                              [pc |-> "find_user", ep |-> "create_blood_alert",
                               tok |-> tok, alert_data |-> a]) :
             req' = [req EXCEPT ![p] = next]
    /\ UNCHANGED <<db, now>>

\* users.find_one of the dependency, then the role check and the
\* construction of the alert; the clock may advance between the two
\* readings, as far as the hourly clock runs
CreateAlertFindUser(p) ==
    /\ AtFindUser(p, "create_blood_alert")
    /\ LET r == req[p]
           auth == FindCurrentUser(users, Val(r.tok.sub))
       IN  \E read \in now..(now + 1) :
            /\ read <= (IF now > MaxTime THEN now ELSE MaxTime)
            /\ IF auth.status # 200
               THEN /\ req' = [req EXCEPT ![p] =
                          Done(r.ep, r.tok, Null, auth.status, auth.detail)]
                    /\ now' = now
               ELSE IF ~MayCreateAlerts(Val(auth.user))
               THEN /\ req' = [req EXCEPT ![p] =
                          Done(r.ep, r.tok, auth.user, 403,
                               "Only hospital staff can create alerts")]
                    /\ now' = now
               ELSE /\ req' = [req EXCEPT ![p] =
                          [pc |-> "insert_alert", ep |-> r.ep, tok |-> r.tok,
                           user |-> auth.user,
                           alert |-> BuildAlert(Val(auth.user), r.alert_data, now, read)]]
                    /\ now' = read
    /\ UNCHANGED db

\* db.blood_alerts.insert_one(alert.dict()), then the query and
\* three_months_ago of notify_matching_donors are built
CreateAlertInsert(p) ==
    /\ At(p, "insert_alert")
    /\ LET alert == [req[p].alert EXCEPT !.id = Len(blood_alerts) + 1]
       IN  /\ blood_alerts' = Append(blood_alerts, alert)
           /\ req' = [req EXCEPT ![p] =
                  [pc |-> "find_donors", ep |-> req[p].ep, tok |-> req[p].tok,
                   user |-> req[p].user, alert |-> alert,
                   three_months_ago |-> now - CooldownDays * 24]]
    /\ UNCHANGED <<users, donor_responses, email_notifications, now>>

MatchesDonorQueryAnyAvailability(doc, blood_type, three_months_ago) ==
    /\ doc.role = "donor"
    /\ doc.blood_type = Some(blood_type)
    /\ \/ /\ "last_donation_date" \in DOMAIN doc
          /\ doc.last_donation_date # Null
          /\ Val(doc.last_donation_date) < three_months_ago
       \/ "last_donation_date" \notin DOMAIN doc

MatchesDonorQueryAnyBlood(doc, blood_type, three_months_ago) ==
    /\ doc.role = "donor"
    /\ doc.is_available = TRUE
    /\ \/ /\ "last_donation_date" \in DOMAIN doc
          /\ doc.last_donation_date # Null
          /\ Val(doc.last_donation_date) < three_months_ago
       \/ "last_donation_date" \notin DOMAIN doc

\* the filter of lines 295-306 on one user document
MatchesDonorQuery(doc, blood_type, three_months_ago) ==
    /\ doc.role = "donor"
    /\ doc.blood_type = Some(blood_type)
    /\ doc.is_available = TRUE
    /\ \/ /\ "last_donation_date" \in DOMAIN doc
          /\ doc.last_donation_date # Null
          /\ Val(doc.last_donation_date) < three_months_ago
       \/ "last_donation_date" \notin DOMAIN doc

\* db.users.find(query).to_list(100)
FindMatchingDonors(us, blood_type, three_months_ago) ==
    LET Hit(doc) == MatchesDonorQuery(doc, blood_type, three_months_ago)
    IN  ToList(SelectSeq(us, Hit), MatchLimit)

CreateAlertFindDonors(p) ==
    /\ At(p, "find_donors")
    /\ LET matching_donors ==
               FindMatchingDonors(users, req[p].alert.blood_type, req[p].three_months_ago)
       IN  req' = [req EXCEPT ![p] =
               IF matching_donors = <<>>
               THEN Done(req[p].ep, req[p].tok, req[p].user, 200, "")
               ELSE [pc |-> "send_email", ep |-> req[p].ep, tok |-> req[p].tok,
                     user |-> req[p].user, alert |-> req[p].alert,
                     matching_donors |-> matching_donors, i |-> 1,
                     sent_at |-> now]]
    /\ UNCHANGED <<db, now>>

\* MockEmailNotification(...) of send_mock_email_notification(donor, alert),
\* built at the clock reading t
MockEmailNotification(donor, alert, t) ==
    [to_email |-> donor.email, to_name |-> donor.name, alert_id |-> alert.id,
     sent_at |-> t, status |-> "sent"]

CreateAlertSendEmailOverwrites(p) ==
    /\ At(p, "send_email")
    /\ LET r == req[p]
           donor == ToUser(r.matching_donors[r.i])
       IN  /\ email_notifications' =
                  SetToBag({MockEmailNotification(donor, r.alert, r.sent_at)})
           /\ req' = [req EXCEPT ![p] =
                  IF r.i = Len(r.matching_donors)
                  THEN Done(r.ep, r.tok, r.user, 200, "")
                  ELSE [r EXCEPT !.i = r.i + 1, !.sent_at = now]]
    /\ UNCHANGED <<users, blood_alerts, donor_responses, now>>

\* one turn of the loop of lines 312-314: the insert_one of the notification
\* built before it, then the next notification is built
CreateAlertSendEmail(p) ==
    /\ At(p, "send_email")
    /\ LET r == req[p]
           donor == ToUser(r.matching_donors[r.i])
       IN  /\ email_notifications' =
                  email_notifications
                    (+) SetToBag({MockEmailNotification(donor, r.alert, r.sent_at)})
           /\ req' = [req EXCEPT ![p] =
                  IF r.i = Len(r.matching_donors)
                  THEN Done(r.ep, r.tok, r.user, 200, "")
                  ELSE [r EXCEPT !.i = r.i + 1, !.sent_at = now]]
    /\ UNCHANGED <<users, blood_alerts, donor_responses, now>>

-----------------------------------------------------------------------------
(* POST /alerts/{alert_id}/respond *)

\* the arrival of the request: the token is decoded
Respond(p, toks, datas) ==
    /\ Free(p)
    /\ \E tok \in toks, alert_id \in AlertIdInputs, data \in datas :
          \E next \in Arrival("respond_to_alert", tok,
                              [pc |-> "find_user", ep |-> "respond_to_alert", tok |-> tok,
                               alert_id |-> alert_id, data |-> data]) :
             req' = [req EXCEPT ![p] = next]
    /\ UNCHANGED <<db, now>>

\* users.find_one of the dependency and the role check
RespondFindUser(p) ==
    /\ AtFindUser(p, "respond_to_alert")
    /\ LET r == req[p]
           auth == FindCurrentUser(users, Val(r.tok.sub))
       IN  req' = [req EXCEPT ![p] =
               IF auth.status # 200
               THEN Done(r.ep, r.tok, Null, auth.status, auth.detail)
               ELSE IF Val(auth.user).role # "donor"
               THEN Done(r.ep, r.tok, auth.user, 403, "Only donors can respond to alerts")
               ELSE [pc |-> "find_alert", ep |-> r.ep, tok |-> r.tok,
                     user |-> auth.user, alert_id |-> r.alert_id, data |-> r.data]]
    /\ UNCHANGED <<db, now>>

RespondFindAlertUnexpired(p) ==
    /\ At(p, "find_alert")
    /\ LET r == req[p]
           alert == FindAlert(blood_alerts, r.alert_id)
       IN  req' = [req EXCEPT ![p] =
               IF alert = Null \/ Val(Val(alert).expires_at) < now
               THEN Done(r.ep, r.tok, r.user, 404, "Alert not found")
               ELSE [r EXCEPT !.pc = "find_response"]]
    /\ UNCHANGED <<db, now>>

RespondFindAlertUnchecked(p) ==
    /\ At(p, "find_alert")
    /\ req' = [req EXCEPT ![p] = [req[p] EXCEPT !.pc = "find_response"]]
    /\ UNCHANGED <<db, now>>

\* db.blood_alerts.find_one({"id": alert_id})
RespondFindAlert(p) ==
    /\ At(p, "find_alert")
    /\ LET r == req[p]
       IN  req' = [req EXCEPT ![p] =
               IF FindAlert(blood_alerts, r.alert_id) = Null
               THEN Done(r.ep, r.tok, r.user, 404, "Alert not found")
               ELSE [r EXCEPT !.pc = "find_response"]]
    /\ UNCHANGED <<db, now>>

HasRespondedSwapped(responses, alert_id, donor_id) ==
    \E d \in BagToSet(responses) : d.alert_id = donor_id /\ d.donor_id = alert_id

\* db.donor_responses.find_one({"alert_id": ..., "donor_id": ...})
HasResponded(responses, alert_id, donor_id) ==
    \E d \in BagToSet(responses) : d.alert_id = alert_id /\ d.donor_id = donor_id

BuildResponseNoPhone(user, alert_id, data, t) ==
    [alert_id |-> alert_id, donor_id |-> user.id, donor_name |-> user.name,
     donor_email |-> user.email, donor_phone |-> Null,
     response |-> data.response, message |-> data.message, responded_at |-> t]

\* DonorResponse(...) of lines 357-365, built at the clock reading t
BuildResponse(user, alert_id, data, t) ==
    [alert_id |-> alert_id, donor_id |-> user.id, donor_name |-> user.name,
     donor_email |-> user.email, donor_phone |-> user.phone,
     response |-> data.response, message |-> data.message, responded_at |-> t]

RespondFindResponse(p) ==
    /\ At(p, "find_response")
    /\ LET r == req[p]
       IN  req' = [req EXCEPT ![p] =
               IF HasResponded(donor_responses, r.alert_id, Val(r.user).id)
               THEN Done(r.ep, r.tok, r.user, 400, "You have already responded to this alert")
               ELSE [pc |-> "insert_response", ep |-> r.ep, tok |-> r.tok, user |-> r.user,
                     alert_id |-> r.alert_id, data |-> r.data,
                     response |-> BuildResponse(Val(r.user), r.alert_id, r.data, now)]]
    /\ UNCHANGED <<db, now>>

RespondInsertFulfils(p) ==
    /\ At(p, "insert_response")
    /\ LET r == req[p]
       IN  /\ donor_responses' = donor_responses (+) SetToBag({r.response})
           /\ blood_alerts' =
                  [i \in 1..Len(blood_alerts) |->
                      IF blood_alerts[i].id = r.alert_id /\ r.data.response = "available"
                      THEN [blood_alerts[i] EXCEPT !.status = "fulfilled"]
                      ELSE blood_alerts[i]]
           /\ req' = [req EXCEPT ![p] =
                  IF r.data.response = "available"
                  THEN [pc |-> "update_user", ep |-> r.ep, tok |-> r.tok, user |-> r.user,
                        alert_id |-> r.alert_id, data |-> r.data,
                        set |-> [is_available |-> FALSE, last_donation_date |-> Some(now)]]
                  ELSE Done(r.ep, r.tok, r.user, 200, "Response recorded successfully")]
    /\ UNCHANGED <<users, email_notifications, now>>

\* db.donor_responses.insert_one(response.dict()); an "available" response
\* goes on to the update, whose $set is built with utcnow() here
RespondInsert(p) ==
    /\ At(p, "insert_response")
    /\ LET r == req[p]
       IN  /\ donor_responses' = donor_responses (+) SetToBag({r.response})
           /\ req' = [req EXCEPT ![p] =
                  IF r.data.response = "available"
                  THEN [pc |-> "update_user", ep |-> r.ep, tok |-> r.tok, user |-> r.user,
                        alert_id |-> r.alert_id, data |-> r.data,
                        set |-> [is_available |-> FALSE, last_donation_date |-> Some(now)]]
                  ELSE Done(r.ep, r.tok, r.user, 200, "Response recorded successfully")]
    /\ UNCHANGED <<users, blood_alerts, email_notifications, now>>

UpdateUserKeepsDate(us, id, set) ==
    LET S == {i \in 1..Len(us) : us[i].id = id}
    IN  IF S = {} THEN us
        ELSE [us EXCEPT ![Min(S)].is_available = set.is_available]

\* db.users.update_one({"id": id}, {"$set": set}): the first document with the id
UpdateUser(us, id, set) ==
    LET S == {i \in 1..Len(us) : us[i].id = id}
    IN  IF S = {} THEN us
        ELSE [us EXCEPT ![Min(S)] =
                 [f \in DOMAIN us[Min(S)] \cup DOMAIN set |->
                     IF f \in DOMAIN set THEN set[f] ELSE us[Min(S)][f]]]

RespondUpdateUserClearsPhone(p) ==
    /\ At(p, "update_user")
    /\ LET r == req[p]
       IN  /\ users' = UpdateUser(users, Val(r.user).id, r.set @@ [phone |-> Null])
           /\ req' = [req EXCEPT ![p] =
                  Done(r.ep, r.tok, r.user, 200, "Response recorded successfully")]
    /\ UNCHANGED <<blood_alerts, donor_responses, email_notifications, now>>

RespondUpdateUser(p) ==
    /\ At(p, "update_user")
    /\ LET r == req[p]
       IN  /\ users' = UpdateUser(users, Val(r.user).id, r.set)
           /\ req' = [req EXCEPT ![p] =
                  Done(r.ep, r.tok, r.user, 200, "Response recorded successfully")]
    /\ UNCHANGED <<blood_alerts, donor_responses, email_notifications, now>>

-----------------------------------------------------------------------------
(* GET /alerts/{alert_id}/responses *)

\* the arrival of the request: the token is decoded
GetAlertResponses(p, toks) ==
    /\ Free(p)
    /\ \E tok \in toks, alert_id \in AlertIdInputs :
          \E next \in Arrival("get_alert_responses", tok,
                              [pc |-> "find_user", ep |-> "get_alert_responses",
                               tok |-> tok, alert_id |-> alert_id]) :
             req' = [req EXCEPT ![p] = next]
    /\ UNCHANGED <<db, now>>

\* users.find_one of the dependency and the role check
GetAlertResponsesFindUser(p) ==
    /\ AtFindUser(p, "get_alert_responses")
    /\ LET r == req[p]
           auth == FindCurrentUser(users, Val(r.tok.sub))
       IN  req' = [req EXCEPT ![p] =
               IF auth.status # 200
               THEN Done(r.ep, r.tok, Null, auth.status, auth.detail)
               ELSE IF Val(auth.user).role # "hospital_staff"
               THEN Done(r.ep, r.tok, auth.user, 403, "Access denied")
               ELSE [pc |-> "find_own_alert", ep |-> r.ep, tok |-> r.tok,
                     user |-> auth.user, alert_id |-> r.alert_id]]
    /\ UNCHANGED <<db, now>>

\* db.blood_alerts.find_one({"id": alert_id, "hospital_id": current_user.id})
GetAlertResponsesFindAlert(p) ==
    /\ At(p, "find_own_alert")
    /\ LET r == req[p]
       IN  req' = [req EXCEPT ![p] =
               IF FindOwnAlert(blood_alerts, r.alert_id, Val(r.user).id) = Null
               THEN Done(r.ep, r.tok, r.user, 404, "Alert not found or access denied")
                      @@ [alert_id |-> r.alert_id]
               ELSE [r EXCEPT !.pc = "find_responses"]]
    /\ UNCHANGED <<db, now>>

\* db.donor_responses.find({"alert_id": alert_id}).sort("responded_at", -1)
\* .to_list(100): the lists the query may return
FindResponses(responses, alert_id) ==
    LET found == Restrict(responses, {d \in BagToSet(responses) : d.alert_id = alert_id})
    IN  {ToList(s, ResponseLimit) : s \in SortBagNewestFirst(found, "responded_at")}

GetAlertResponsesFind(p) ==
    /\ At(p, "find_responses")
    /\ LET r == req[p]
       IN  \E responses \in FindResponses(donor_responses, r.alert_id) :
              req' = [req EXCEPT ![p] =
                  Done(r.ep, r.tok, r.user, 200, "")
                    @@ [alert_id |-> r.alert_id, body |-> responses]]
    /\ UNCHANGED <<db, now>>

-----------------------------------------------------------------------------

(* The service with every modelled endpoint and every kind of credentials: *)
(* two hospitals, one donor, one kind of alert, one response value, all    *)
(* requests within the same hours                                          *)

Next ==
    \/ \E p \in Req :
          \/ Register(p, RegInputs, MaxUsers)
          \/ RegisterInsert(p)
          \/ CreateAlert(p, TokenInputs, HighAlerts, MaxAlerts)
          \/ CreateAlertFindUser(p)
          \/ CreateAlertInsert(p)
          \/ CreateAlertFindDonors(p)
          \/ CreateAlertSendEmail(p)
          \/ Respond(p, TokenInputs, Accepting)
          \/ RespondFindUser(p)
          \/ RespondFindAlert(p)
          \/ RespondFindResponse(p)
          \/ RespondInsert(p)
          \/ RespondUpdateUser(p)
          \/ GetAlertResponses(p, TokenInputs)
          \/ GetAlertResponsesFindUser(p)
          \/ GetAlertResponsesFindAlert(p)
          \/ GetAlertResponsesFind(p)

Spec == Init /\ [][Next]_vars

(* Donor responses: one hospital, one donor, one alert, every response value *)

NextRespond ==
    \/ Tick
    \/ \E p \in Req :
          \/ Register(p, RespondRegs, RespondMaxUsers)
          \/ RegisterInsert(p)
          \/ CreateAlert(p, FirstHospital, CriticalAlerts, RespondMaxAlerts)
          \/ CreateAlertFindUser(p)
          \/ CreateAlertInsert(p)
          \/ CreateAlertFindDonors(p)
          \/ CreateAlertSendEmail(p)
          \/ Respond(p, RespondCallers, RespInputs)
          \/ RespondFindUser(p)
          \/ RespondFindAlert(p)
          \/ RespondFindResponse(p)
          \/ RespondInsert(p)
          \/ RespondUpdateUser(p)

SpecRespond == Init /\ [][NextRespond]_vars

(* Donor matching: one hospital, three donors with different donation      *)
(* histories, every kind of alert, donors who accept                       *)

NextMatch ==
    \/ Tick
    \/ \E p \in Req :
          \/ Register(p, MatchRegs, MatchMaxUsers)
          \/ RegisterInsert(p)
          \/ CreateAlert(p, FirstHospital, AlertInputs, MatchMaxAlerts)
          \/ CreateAlertFindUser(p)
          \/ CreateAlertInsert(p)
          \/ CreateAlertFindDonors(p)
          \/ CreateAlertSendEmail(p)
          \/ Respond(p, MatchCallers, Accepting)
          \/ RespondFindUser(p)
          \/ RespondFindAlert(p)
          \/ RespondFindResponse(p)
          \/ RespondInsert(p)
          \/ RespondUpdateUser(p)

SpecMatch == Init /\ [][NextMatch]_vars

-----------------------------------------------------------------------------
(* POST /login and GET /me *)

\* login: one find_one, then the verification and the answer
Login(p, logins) ==
    /\ Free(p)
    /\ \E login_data \in logins :
          LET user == FindUserByEmail(users, login_data.email)
          IN  req' = [req EXCEPT ![p] =
                  (IF user = Null \/ ~verify_password(login_data.password, Val(user).password)
                   THEN Done("login", NoToken, Null, 401, "Invalid email or password")
                   ELSE Done("login", create_access_token(login_data.email, now),
                             Some(ToUser(Val(user))), 200, ""))
                    @@ [login_data |-> login_data]]
    /\ UNCHANGED <<db, now>>

\* the arrival of GET /me: the token is decoded
GetCurrentUserInfo(p, toks) ==
    /\ Free(p)
    /\ \E tok \in toks :
          \E next \in Arrival("get_current_user_info", tok,
                              [pc |-> "find_user", ep |-> "get_current_user_info",
                               tok |-> tok]) :
             req' = [req EXCEPT ![p] = next]
    /\ UNCHANGED <<db, now>>

\* users.find_one of the dependency; get_current_user_info answers with the
\* user of the dependency
GetCurrentUserInfoFindUser(p) ==
    /\ AtFindUser(p, "get_current_user_info")
    /\ LET r == req[p]
           auth == FindCurrentUser(users, Val(r.tok.sub))
       IN  req' = [req EXCEPT ![p] =
               Done(r.ep, r.tok, auth.user, auth.status, auth.detail)]
    /\ UNCHANGED <<db, now>>

-----------------------------------------------------------------------------
(* GET /alerts *)

\* the arrival of the request: the token is decoded
GetBloodAlerts(p, toks) ==
    /\ Free(p)
    /\ \E tok \in toks :
          \E next \in Arrival("get_blood_alerts", tok,
                              [pc |-> "find_user", ep |-> "get_blood_alerts",
                               tok |-> tok]) :
             req' = [req EXCEPT ![p] = next]
    /\ UNCHANGED <<db, now>>

\* users.find_one of the dependency; the query is built from its user
GetBloodAlertsFindUser(p) ==
    /\ AtFindUser(p, "get_blood_alerts")
    /\ LET r == req[p]
           auth == FindCurrentUser(users, Val(r.tok.sub))
       IN  req' = [req EXCEPT ![p] =
               IF auth.status # 200
               THEN Done(r.ep, r.tok, Null, auth.status, auth.detail)
               ELSE [pc |-> "find_alerts", ep |-> r.ep, tok |-> r.tok,
                     user |-> auth.user]]
    /\ UNCHANGED <<db, now>>

\* cursor.sort("created_at", -1): the documents at the positions S of as,
\* newest first; documents with equal created_at come in any order
SortNewestFirst(as, S) ==
    LET n == Cardinality(S)
        Orders == {f \in [1..n -> S] :
                      /\ \A k, l \in 1..n : f[k] = f[l] => k = l
                      /\ \A k \in 1..(n - 1) :
                            as[f[k]].created_at >= as[f[k + 1]].created_at}
    IN  {[k \in 1..n |-> as[f[k]]] : f \in Orders}

FindAlertsForAnyone(as, user) ==
    {ToList(s, StaffAlertLimit) : s \in SortNewestFirst(as, 1..Len(as))}

\* the two queries of lines 318-326
FindAlertsFor(as, user) ==
    IF user.role = "hospital_staff"
    THEN {ToList(s, StaffAlertLimit) :
             s \in SortNewestFirst(as, {i \in 1..Len(as) : as[i].hospital_id = user.id})}
    ELSE {ToList(s, DonorAlertLimit) :
             s \in SortNewestFirst(as, {i \in 1..Len(as) :
                                           /\ Some(as[i].blood_type) = user.blood_type
                                           /\ as[i].status = "active"})}

GetBloodAlertsFind(p) ==
    /\ At(p, "find_alerts")
    /\ \E alerts \in FindAlertsFor(blood_alerts, Val(req[p].user)) :
          req' = [req EXCEPT ![p] =
              Done(req[p].ep, req[p].tok, req[p].user, 200, "") @@ [body |-> alerts]]
    /\ UNCHANGED <<db, now>>

-----------------------------------------------------------------------------
(* GET /alerts/{alert_id} *)

\* the arrival of the request: the token is decoded
GetAlertDetails(p, toks, alert_ids) ==
    /\ Free(p)
    /\ \E tok \in toks, alert_id \in alert_ids :
          \E next \in Arrival("get_alert_details", tok,
                              [pc |-> "find_user", ep |-> "get_alert_details",
                               tok |-> tok, alert_id |-> alert_id]) :
             req' = [req EXCEPT ![p] = next]
    /\ UNCHANGED <<db, now>>

\* users.find_one of the dependency
GetAlertDetailsFindUser(p) ==
    /\ AtFindUser(p, "get_alert_details")
    /\ LET r == req[p]
           auth == FindCurrentUser(users, Val(r.tok.sub))
       IN  req' = [req EXCEPT ![p] =
               IF auth.status # 200
               THEN Done(r.ep, r.tok, Null, auth.status, auth.detail)
               ELSE [pc |-> "find_details", ep |-> r.ep, tok |-> r.tok,
                     user |-> auth.user, alert_id |-> r.alert_id]]
    /\ UNCHANGED <<db, now>>

FindAlertDetailsOwn(as, alert_id, user) ==
    IF user.role = "hospital_staff"
    THEN FindOwnAlert(as, alert_id, user.id)
    ELSE FindAlert(as, alert_id)

\* db.blood_alerts.find_one({"id": alert_id}): the caller plays no part
FindAlertDetails(as, alert_id, user) == FindAlert(as, alert_id)

GetAlertDetailsFind(p) ==
    /\ At(p, "find_details")
    /\ LET r == req[p]
           alert == FindAlertDetails(blood_alerts, r.alert_id, Val(r.user))
       IN  req' = [req EXCEPT ![p] =
               IF alert = Null
               THEN Done(r.ep, r.tok, r.user, 404, "Alert not found")
                      @@ [alert_id |-> r.alert_id]
               ELSE Done(r.ep, r.tok, r.user, 200, "")
                      @@ [alert_id |-> r.alert_id, body |-> Val(alert)]]
    /\ UNCHANGED <<db, now>>

-----------------------------------------------------------------------------
(* GET /mock-emails *)

\* the arrival of the request: the token is decoded
GetMockEmails(p, toks) ==
    /\ Free(p)
    /\ \E tok \in toks :
          \E next \in Arrival("get_mock_emails", tok,
                              [pc |-> "find_user", ep |-> "get_mock_emails",
                               tok |-> tok]) :
             req' = [req EXCEPT ![p] = next]
    /\ UNCHANGED <<db, now>>

\* users.find_one of the dependency; the query is built from its user
GetMockEmailsFindUser(p) ==
    /\ AtFindUser(p, "get_mock_emails")
    /\ LET r == req[p]
           auth == FindCurrentUser(users, Val(r.tok.sub))
       IN  req' = [req EXCEPT ![p] =
               IF auth.status # 200
               THEN Done(r.ep, r.tok, Null, auth.status, auth.detail)
               ELSE [pc |-> "find_emails", ep |-> r.ep, tok |-> r.tok,
                     user |-> auth.user]]
    /\ UNCHANGED <<db, now>>

FindEmailsForAnyone(emails, user) ==
    {ToList(s, StaffEmailLimit) : s \in SortBagNewestFirst(emails, "sent_at")}

\* the two queries of lines 450-454, each with .sort("sent_at", -1) and
\* .to_list: the lists the query may return
FindEmailsFor(emails, user) ==
    IF user.role = "donor"
    THEN LET own == Restrict(emails, {e \in BagToSet(emails) : e.to_email = user.email})
         IN  {ToList(s, DonorEmailLimit) : s \in SortBagNewestFirst(own, "sent_at")}
    ELSE {ToList(s, StaffEmailLimit) : s \in SortBagNewestFirst(emails, "sent_at")}

GetMockEmailsFind(p) ==
    /\ At(p, "find_emails")
    /\ \E emails \in FindEmailsFor(email_notifications, Val(req[p].user)) :
          req' = [req EXCEPT ![p] =
              Done(req[p].ep, req[p].tok, req[p].user, 200, "") @@ [body |-> emails]]
    /\ UNCHANGED <<db, now>>

-----------------------------------------------------------------------------
(* GET /dashboard/stats *)

\* the arrival of the request: the token is decoded
GetDashboardStats(p, toks) ==
    /\ Free(p)
    /\ \E tok \in toks :
          \E next \in Arrival("get_dashboard_stats", tok,
                              [pc |-> "find_user", ep |-> "get_dashboard_stats",
                               tok |-> tok]) :
             req' = [req EXCEPT ![p] = next]
    /\ UNCHANGED <<db, now>>

\* users.find_one of the dependency and the branch on the role
GetDashboardStatsFindUser(p) ==
    /\ AtFindUser(p, "get_dashboard_stats")
    /\ LET r == req[p]
           auth == FindCurrentUser(users, Val(r.tok.sub))
       IN  req' = [req EXCEPT ![p] =
               IF auth.status # 200
               THEN Done(r.ep, r.tok, Null, auth.status, auth.detail)
               ELSE [pc |-> IF Val(auth.user).role = "hospital_staff"
                            THEN "count_total_alerts" ELSE "count_total_responses",
                     ep |-> r.ep, tok |-> r.tok, user |-> auth.user]]
    /\ UNCHANGED <<db, now>>

\* count_documents on blood_alerts; P is the set of documents of the filter
CountAlerts(as, P) == Cardinality({i \in 1..Len(as) : as[i] \in P})

\* count_documents on donor_responses; P is the set of documents of the filter
CountResponses(responses, P) == BagCardinality(Restrict(responses, P))

\* total_alerts (line 396)
StatsCountAlerts(p) ==
    /\ At(p, "count_total_alerts")
    /\ LET Own == {a \in {blood_alerts[i] : i \in 1..Len(blood_alerts)} :
                      a.hospital_id = Val(req[p].user).id}
       IN  req' = [req EXCEPT ![p] =
               [pc |-> "count_active_alerts", ep |-> req[p].ep, tok |-> req[p].tok,
                user |-> req[p].user,
                total_alerts |-> CountAlerts(blood_alerts, Own)]]
    /\ UNCHANGED <<db, now>>

\* active_alerts (lines 397-400)
StatsCountActiveAlerts(p) ==
    /\ At(p, "count_active_alerts")
    /\ LET OwnActive == {a \in {blood_alerts[i] : i \in 1..Len(blood_alerts)} :
                            a.hospital_id = Val(req[p].user).id /\ a.status = "active"}
       IN  req' = [req EXCEPT ![p] =
               [pc |-> "aggregate_responses", ep |-> req[p].ep, tok |-> req[p].tok,
                user |-> req[p].user, total_alerts |-> req[p].total_alerts,
                active_alerts |-> CountAlerts(blood_alerts, OwnActive)]]
    /\ UNCHANGED <<db, now>>

\* the pipeline of lines 403-414: $lookup of the response's alert, $match on
\* the alert's hospital_id, $group by response with a count
AggregateResponses(responses, as, hospital_id) ==
    LET Joined(d) == \E i \in 1..Len(as) :
                         as[i].id = d.alert_id /\ as[i].hospital_id = hospital_id
        matched == Restrict(responses, {d \in BagToSet(responses) : Joined(d)})
        groups == {d.response : d \in BagToSet(matched)}
    IN  [g \in groups |->
            BagCardinality(Restrict(matched,
                {d \in BagToSet(matched) : d.response = g}))]

\* .to_list(n) on the groups, which come in no particular order, and the
\* dictionary response_stats built from them (line 417)
ResponseStats(groups, n) ==
    IF Cardinality(DOMAIN groups) <= n THEN {groups}
    ELSE {[g \in G |-> groups[g]] :
             G \in {H \in SUBSET DOMAIN groups : Cardinality(H) = n}}

RECURSIVE SumValues(_)
\* sum(response_stats.values())
SumValues(f) ==
    IF DOMAIN f = {} THEN 0
    ELSE LET g == CHOOSE x \in DOMAIN f : TRUE
         IN  f[g] + SumValues([x \in DOMAIN f \ {g} |-> f[x]])

\* response_stats.get(key, 0)
GetOrZero(f, key) == IF key \in DOMAIN f THEN f[key] ELSE 0

\* the aggregate and the answer of the hospital dashboard (lines 403-425)
StatsAggregate(p) ==
    /\ At(p, "aggregate_responses")
    /\ \E response_stats \in
             ResponseStats(AggregateResponses(donor_responses, blood_alerts,
                                              Val(req[p].user).id), GroupLimit) :
          req' = [req EXCEPT ![p] =
              Done(req[p].ep, req[p].tok, req[p].user, 200, "")
                @@ [body |-> [total_alerts |-> req[p].total_alerts,
                              active_alerts |-> req[p].active_alerts,
                              total_responses |-> SumValues(response_stats),
                              available_responses |->
                                  GetOrZero(response_stats, "available"),
                              not_available_responses |->
                                  GetOrZero(response_stats, "not_available")]]]
    /\ UNCHANGED <<db, now>>

\* total_responses of the donor dashboard (line 428)
StatsCountResponses(p) ==
    /\ At(p, "count_total_responses")
    /\ LET Mine == {d \in BagToSet(donor_responses) : d.donor_id = Val(req[p].user).id}
       IN  req' = [req EXCEPT ![p] =
               [pc |-> "count_available_responses", ep |-> req[p].ep, tok |-> req[p].tok,
                user |-> req[p].user,
                total_responses |-> CountResponses(donor_responses, Mine)]]
    /\ UNCHANGED <<db, now>>

\* available_responses (lines 429-432)
StatsCountAvailable(p) ==
    /\ At(p, "count_available_responses")
    /\ LET MineAvailable == {d \in BagToSet(donor_responses) :
                                d.donor_id = Val(req[p].user).id /\ d.response = "available"}
       IN  req' = [req EXCEPT ![p] =
               [pc |-> "count_alerts_for_blood_type", ep |-> req[p].ep,
                tok |-> req[p].tok, user |-> req[p].user,
                total_responses |-> req[p].total_responses,
                available_responses |-> CountResponses(donor_responses, MineAvailable)]]
    /\ UNCHANGED <<db, now>>

\* datetime.isoformat(): the text of a time
isoformat(t) == <<"iso", t>>

\* active alerts of the donor's blood type and the answer (lines 435-445)
StatsCountBloodType(p) ==
    /\ At(p, "count_alerts_for_blood_type")
    /\ LET user == Val(req[p].user)
           ForMe == {a \in {blood_alerts[i] : i \in 1..Len(blood_alerts)} :
                        Some(a.blood_type) = user.blood_type /\ a.status = "active"}
       IN  req' = [req EXCEPT ![p] =
               Done(req[p].ep, req[p].tok, req[p].user, 200, "")
                 @@ [body |-> [total_responses |-> req[p].total_responses,
                               available_responses |-> req[p].available_responses,
                               active_alerts_for_blood_type |->
                                   CountAlerts(blood_alerts, ForMe),
                               last_donation |->
                                   IF user.last_donation_date # Null
                                   THEN Some(isoformat(Val(user.last_donation_date)))
                                   ELSE Null]]]
    /\ UNCHANGED <<db, now>>

\* the wall clock advances, up to a given hour
Advance(max_time) ==
    /\ now < max_time
    /\ now' = now + 1
    /\ UNCHANGED <<db, req>>

(* Accounts: registration with valid and invalid bodies, login and /me     *)

NextAccount ==
    \E p \in Req :
       \/ Register(p, AccountRegs, AccountMaxUsers)
       \/ RegisterInsert(p)
       \/ Login(p, LoginInputs)
       \/ GetCurrentUserInfo(p, TokenInputs)
       \/ GetCurrentUserInfoFindUser(p)

SpecAccount == Init /\ [][NextAccount]_vars

(* Reading alerts: two hospitals and a donor, alerts of two blood types    *)
(* created at different hours, a clock that runs past their expiry, one    *)
(* request at a time                                                       *)

NextRead ==
    \/ Advance(ReadMaxTime)
    \/ \E p \in {1} :
          \/ Register(p, ReadRegs, ReadMaxUsers)
          \/ RegisterInsert(p)
          \/ CreateAlert(p, ReadHospitals, ReadAlerts, ReadMaxAlerts)
          \/ CreateAlertFindUser(p)
          \/ CreateAlertInsert(p)
          \/ CreateAlertFindDonors(p)
          \/ CreateAlertSendEmail(p)
          \/ Respond(p, RespondCallers, Accepting)
          \/ RespondFindUser(p)
          \/ RespondFindAlert(p)
          \/ RespondFindResponse(p)
          \/ RespondInsert(p)
          \/ RespondUpdateUser(p)
          \/ GetBloodAlerts(p, ReadCallers)
          \/ GetBloodAlertsFindUser(p)
          \/ GetBloodAlertsFind(p)

SpecRead == Init /\ [][NextRead]_vars

(* Reading one alert: two hospitals and a donor, alerts of two blood       *)
(* types, every stored id and one more, one request at a time              *)

NextDetails ==
    \E p \in {1} :
       \/ Register(p, ReadRegs, ReadMaxUsers)
       \/ RegisterInsert(p)
       \/ CreateAlert(p, ReadHospitals, ReadAlerts, ReadMaxAlerts)
       \/ CreateAlertFindUser(p)
       \/ CreateAlertInsert(p)
       \/ CreateAlertFindDonors(p)
       \/ CreateAlertSendEmail(p)
       \/ GetAlertDetails(p, ReadCallers, ReadAlertIds)
       \/ GetAlertDetailsFindUser(p)
       \/ GetAlertDetailsFind(p)

SpecDetails == Init /\ [][NextDetails]_vars

(* After a donation: a hospital and a donor, two alerts of the donor's     *)
(* blood type, and a clock that jumps past the 90 days of the matching     *)
(* query                                                                   *)

\* the hours of the timedelta(days=90) of the matching query, and one more
Season == CooldownDays * 24 + 1

\* the wall clock advances by more than 90 days
SeasonPasses(max_seasons) ==
    /\ now < max_seasons * Season
    /\ now' = now + Season
    /\ UNCHANGED <<db, req>>

\* the tokens a client may hold: issued in the first hour of a season that
\* has begun
SeasonTokens(email) ==
    {create_access_token(email, k * Season) :
        k \in {k \in 0..CooldownMaxSeasons : k * Season <= now}}

NextCooldown ==
    \/ SeasonPasses(CooldownMaxSeasons)
    \/ \E p \in Req :
          \/ Register(p, RespondRegs, CooldownMaxUsers)
          \/ RegisterInsert(p)
          \/ CreateAlert(p, SeasonTokens("h1@x"), CriticalAlerts, CooldownMaxAlerts)
          \/ CreateAlertFindUser(p)
          \/ CreateAlertInsert(p)
          \/ CreateAlertFindDonors(p)
          \/ CreateAlertSendEmail(p)
          \/ Respond(p, SeasonTokens("d3@x"), Accepting)
          \/ RespondFindUser(p)
          \/ RespondFindAlert(p)
          \/ RespondFindResponse(p)
          \/ RespondInsert(p)
          \/ RespondUpdateUser(p)

SpecCooldown == Init /\ [][NextCooldown]_vars

(* Newest first: a hospital and two donors, two alerts of the donors'     *)
(* blood type created at different hours, responses and notifications      *)
(* of different hours, one request at a time                               *)

NextNewest ==
    \/ Tick
    \/ \E p \in {1} :
          \/ Register(p, NewestRegs, NewestMaxUsers)
          \/ RegisterInsert(p)
          \/ CreateAlert(p, FirstHospital, CriticalAlerts, NewestMaxAlerts)
          \/ CreateAlertFindUser(p)
          \/ CreateAlertInsert(p)
          \/ CreateAlertFindDonors(p)
          \/ CreateAlertSendEmail(p)
          \/ Respond(p, MatchCallers, Accepting)
          \/ RespondFindUser(p)
          \/ RespondFindAlert(p)
          \/ RespondFindResponse(p)
          \/ RespondInsert(p)
          \/ RespondUpdateUser(p)
          \/ GetAlertResponses(p, FirstHospital)
          \/ GetAlertResponsesFindUser(p)
          \/ GetAlertResponsesFindAlert(p)
          \/ GetAlertResponsesFind(p)
          \/ GetMockEmails(p, RespondCallers)
          \/ GetMockEmailsFindUser(p)
          \/ GetMockEmailsFind(p)

SpecNewest == Init /\ [][NextNewest]_vars

(* Mailbox and dashboard: one request at a time; a hospital registers,     *)
(* then StatsDonors donors one after the other; the hospital creates one   *)
(* alert; the n-th response comes from the n-th donor, the first one       *)
(* accepts and each later one answers with a text of their own             *)

StatsDonors == GroupLimit + 1

StatsEmail(k) == "s" \o ToString(k) \o "@x"

\* the first two donors have the blood type of the alert
StatsDonor(k) ==
    Reg(StatsEmail(k), "donor", "S" \o ToString(k), Null, Null,
        Some(IF k <= 2 THEN "A+" ELSE "O-"),
        Some("Harbor"), Null, Null, Some(0 - CooldownDays * 24 - 1))

\* the next registration
StatsRegs ==
    IF Len(users) = 0 THEN {RegH1} ELSE {StatsDonor(Len(users))}

\* the donor and the body of the next response
StatsResponder == {TokenFor(StatsEmail(BagCardinality(donor_responses) + 1))}
StatsResponse ==
    LET k == BagCardinality(donor_responses) + 1
    IN  {[response |-> IF k = 1 THEN "available" ELSE "text " \o ToString(k),
          message |-> Null]}

\* the callers of GET /mock-emails and of GET /dashboard/stats
StatsMailboxes == {TokenFor("h1@x"), TokenFor(StatsEmail(1)), TokenFor(StatsEmail(2))}
StatsDashboards == {TokenFor("h1@x"), TokenFor(StatsEmail(1))}

NextStats ==
    \E p \in {1} :
       \/ Register(p, StatsRegs, StatsDonors + 1)
       \/ RegisterInsert(p)
       \/ CreateAlert(p, FirstHospital, CriticalAlerts, StatsMaxAlerts)
       \/ CreateAlertFindUser(p)
       \/ CreateAlertInsert(p)
       \/ CreateAlertFindDonors(p)
       \/ CreateAlertSendEmail(p)
       \/ Respond(p, StatsResponder, StatsResponse)
       \/ RespondFindUser(p)
       \/ RespondFindAlert(p)
       \/ RespondFindResponse(p)
       \/ RespondInsert(p)
       \/ RespondUpdateUser(p)
       \/ GetMockEmails(p, StatsMailboxes)
       \/ GetMockEmailsFindUser(p)
       \/ GetMockEmailsFind(p)
       \/ GetDashboardStats(p, StatsDashboards)
       \/ GetDashboardStatsFindUser(p)
       \/ StatsCountAlerts(p)
       \/ StatsCountActiveAlerts(p)
       \/ StatsAggregate(p)
       \/ StatsCountResponses(p)
       \/ StatsCountAvailable(p)
       \/ StatsCountBloodType(p)

SpecStats == Init /\ [][NextStats]_vars

(* The hospital dashboard beside a concurrent create_blood_alert           *)

NextDashboard ==
    \E p \in Req :
       \/ Register(p, FirstStaff, DashboardMaxUsers)
       \/ RegisterInsert(p)
       \/ CreateAlert(p, FirstHospital, CriticalAlerts, StatsMaxAlerts)
       \/ CreateAlertFindUser(p)
       \/ CreateAlertInsert(p)
       \/ CreateAlertFindDonors(p)
       \/ GetDashboardStats(p, FirstHospital)
       \/ GetDashboardStatsFindUser(p)
       \/ StatsCountAlerts(p)
       \/ StatsCountActiveAlerts(p)
       \/ StatsAggregate(p)

SpecDashboard == Init /\ [][NextDashboard]_vars

-----------------------------------------------------------------------------
(* Vocabulary of the properties *)

\* slot p took a step
Stepped(p) == req'[p] # req[p]

\* slot p is inside the handler ep (started, not yet answered)
InFlight(p, ep) == req[p].pc \notin {"idle", "done"} /\ req[p].ep = ep

\* slot p holds the answer of a request to ep
Answered(p, ep) == req[p].pc = "done" /\ req[p].ep = ep

\* slot p answers a request to ep in this step
Answers(p, ep) == Stepped(p) /\ req'[p].pc = "done" /\ req'[p].ep = ep

\* the number of stored responses of a donor to an alert
ResponseCount(alert_id, donor_id) ==
    BagCardinality(Restrict(donor_responses,
        {d \in BagToSet(donor_responses) : d.alert_id = alert_id /\ d.donor_id = donor_id}))

UserIds == {users[i].id : i \in 1..Len(users)}
AlertIds == {blood_alerts[i].id : i \in 1..Len(blood_alerts)}

\* the stored user documents with an id
UsersWithId(us, id) == {i \in 1..Len(us) : us[i].id = id}

-----------------------------------------------------------------------------
(* C1: the donor_responses collection holds at most one record for each    *)
(* (alert_id, donor_id) pair in every reachable state, whatever the        *)
(* interleaving of respond_to_alert requests.                              *)
(* Two requests of one donor that both run their existence check before    *)
(* either inserts both insert: the statement is violated.                  *)

C1_OneResponsePerPair ==
    \A a \in AlertIds, d \in UserIds : ResponseCount(a, d) <= 1

(* C2: while a response of the donor to the alert is already stored, a     *)
(* respond_to_alert request of that donor for that alert that has not yet  *)
(* passed its existence check changes no collection in any of its steps,   *)
(* and the step that answers it answers 400.  (A response stored when the  *)
(* request arrives is still stored at each of these steps.)                *)

C2_Duplicate(p) ==
    /\ InFlight(p, "respond_to_alert")
    /\ req[p].pc \in {"find_alert", "find_response"}
    /\ ResponseCount(req[p].alert_id, Val(req[p].user).id) >= 1

C2_DuplicateRejected ==
    [][\A p \in Req :
          C2_Duplicate(p) /\ Stepped(p) =>
              /\ UNCHANGED db
              /\ \/ req[p].pc = "find_alert" /\ req'[p].pc = "find_response"
                 \/ req'[p].pc = "done" /\ req'[p].status = 400]_vars

\* a second request of a donor was answered 400 while the first response,
\* an acceptance, stays stored
C2_Witness ==
    \E p \in Req :
        /\ Answered(p, "respond_to_alert")
        /\ req[p].status = 400
        /\ \E d \in BagToSet(donor_responses) :
              d.donor_id = Val(req[p].user).id /\ d.response = "available"

(* C3: the step that answers an "available" respond_to_alert request with  *)
(* 200 leaves the responding donor's document with is_available = FALSE    *)
(* and last_donation_date = the clock reading the handler took after its   *)
(* insert (never later than the time of the answer); no step of a request  *)
(* with another response value changes the users collection.               *)

C3_AvailabilityFlipped ==
    [][\A p \in Req :
          /\ Answers(p, "respond_to_alert") /\ req[p].pc = "update_user" =>
                /\ req'[p].status = 200
                /\ req[p].data.response = "available"
                /\ \A i \in UsersWithId(users', Val(req[p].user).id) :
                      /\ users'[i].is_available = FALSE
                      /\ users'[i].last_donation_date = req[p].set.last_donation_date
                      /\ Val(users'[i].last_donation_date) \in 0..now
                /\ UsersWithId(users', Val(req[p].user).id) # {}
                /\ \A i \in 1..Len(users) :
                      users[i].id # Val(req[p].user).id => users'[i] = users[i]
          /\ Answers(p, "respond_to_alert") /\ req'[p].status = 200
                /\ req[p].data.response = "available" => req[p].pc = "update_user"
          /\ req[p].pc = "insert_response" /\ Stepped(p)
                /\ req'[p].pc = "update_user" =>
                    req'[p].set.last_donation_date = Some(now)
          /\ InFlight(p, "respond_to_alert") /\ Stepped(p)
                /\ req[p].data.response # "available" => users' = users]_vars

\* an acceptance was answered 200 and the donor is no longer available, beside
\* a user whose document is as registered
C3_Witness ==
    \E p \in Req :
        /\ Answered(p, "respond_to_alert")
        /\ req[p].status = 200
        /\ \E i \in UsersWithId(users, Val(req[p].user).id) :
              users[i].is_available = FALSE /\ users[i].last_donation_date = Some(1)
        /\ \E i \in 1..Len(users) : users[i].role = "hospital_staff"

(* C4: a request to an endpoint other than register and login that        *)
(* carries no bearer token, a token that does not decode, a token without  *)
(* a subject or a token whose subject is no stored user's email is         *)
(* answered 401.  (A subject that is no stored email now was none when the *)
(* request was authenticated.)                                             *)
(* The statement is violated by the request without credentials, which     *)
(* HTTPBearer may answer 403.                                              *)

C4_BadCredentials(tok) ==
    \/ tok.kind = "none"
    \/ tok.kind = "garbage"
    \/ tok.sub = Null
    \/ \A i \in 1..Len(users) : users[i].email # Val(tok.sub)

C4_Unauthenticated401 ==
    \A p \in Req :
        /\ req[p].pc = "done"
        /\ req[p].ep \notin {"register", "login"}
        /\ C4_BadCredentials(req[p].tok)
        => req[p].status = 401

(* C5: a create_blood_alert request of an authenticated user who is not    *)
(* hospital staff is answered 403 in a step that changes no collection; a  *)
(* request that goes on to insert is one of hospital staff; and the        *)
(* hospital_id of every stored alert is the id of a stored user with role  *)
(* hospital_staff.                                                         *)

C5_OnlyStaffCreate ==
    /\ [](\A p \in Req :
            /\ Answered(p, "create_blood_alert") /\ req[p].user # Null
                  /\ Val(req[p].user).role # "hospital_staff" => req[p].status = 403
            /\ InFlight(p, "create_blood_alert") /\ ~AtFindUser(p, "create_blood_alert") =>
                  Val(req[p].user).role = "hospital_staff")
    /\ [](\A k \in 1..Len(blood_alerts) :
            \E i \in 1..Len(users) :
                /\ users[i].id = blood_alerts[k].hospital_id
                /\ users[i].role = "hospital_staff")
    /\ [][\A p \in Req :
            Answers(p, "create_blood_alert") /\ req'[p].status = 403 => UNCHANGED db]_vars

\* a donor's request to create an alert was answered 403, and an alert of a
\* hospital is stored
C5_Witness ==
    /\ \E p \in Req :
          /\ Answered(p, "create_blood_alert")
          /\ req[p].status = 403
          /\ req[p].user # Null
          /\ Val(req[p].user).role = "donor"
    /\ blood_alerts # <<>>

(* C6: get_alert_responses answers a caller who is not hospital staff with *)
(* 403, and a hospital-staff caller with 404 when no stored alert has the  *)
(* requested id and the caller's id as hospital_id, in both cases without  *)
(* response data; an answer 200 goes to the hospital-staff user whose id   *)
(* is the alert's hospital_id and carries exactly the responses stored for *)
(* that alert when the query ran.                                          *)

C6_OwnAlerts(user, alert_id) ==
    {k \in 1..Len(blood_alerts) :
        blood_alerts[k].id = alert_id /\ blood_alerts[k].hospital_id = user.id}

C6_ResponsesOnlyToOwner ==
    /\ [](\A p \in Req :
            Answered(p, "get_alert_responses") /\ req[p].user # Null =>
                LET user == Val(req[p].user)
                IN  /\ user.role # "hospital_staff" =>
                          req[p].status = 403 /\ "body" \notin DOMAIN req[p]
                    /\ user.role = "hospital_staff"
                          /\ C6_OwnAlerts(user, req[p].alert_id) = {} =>
                          req[p].status = 404 /\ "body" \notin DOMAIN req[p]
                    /\ req[p].status = 200 =>
                          /\ user.role = "hospital_staff"
                          /\ C6_OwnAlerts(user, req[p].alert_id) # {})
    /\ [][\A p \in Req :
            Answers(p, "get_alert_responses") /\ req'[p].status = 200 =>
                /\ \A d \in ListDocs(req'[p].body) : d.alert_id = req[p].alert_id
                /\ IsNewestFirst(req'[p].body, "responded_at")
                /\ \A d \in BagToSet(donor_responses) :
                      d.alert_id = req[p].alert_id =>
                          ListCopies(d, req'[p].body) = CopiesIn(d, donor_responses)]_vars

\* a hospital was answered 404 for an alert of another hospital to which a
\* response is stored
C6_Witness ==
    \E p \in Req :
        /\ Answered(p, "get_alert_responses")
        /\ req[p].status = 404
        /\ \E k \in 1..Len(blood_alerts) :
              /\ blood_alerts[k].id = req[p].alert_id
              /\ blood_alerts[k].hospital_id # Val(req[p].user).id
              /\ \E d \in BagToSet(donor_responses) : d.alert_id = req[p].alert_id

(* C7: the donors the matching query returns are donors whose blood type   *)
(* is the alert's, who are available and whose last donation date is not   *)
(* within the 90 days before the query; a notification is only inserted by *)
(* the loop over these donors, for the alert of the request and addressed  *)
(* to the donor of the turn; and when the request is answered, the         *)
(* notifications for the alert addressed to an email are as many as the    *)
(* matched donors with that email.                                         *)

C7_Eligible(doc, alert, t) ==
    /\ doc.role = "donor"
    /\ doc.blood_type = Some(alert.blood_type)
    /\ doc.is_available = TRUE
    /\ ~(/\ doc.last_donation_date # Null
         /\ Val(doc.last_donation_date) >= t - 90 * 24
         /\ Val(doc.last_donation_date) <= t)

C7_Matched(r) == IF r.pc = "send_email" THEN r.matching_donors ELSE <<>>

C7_Notified(notifications, alert_id, email) ==
    BagCardinality(Restrict(notifications,
        {n \in BagToSet(notifications) : n.alert_id = alert_id /\ n.to_email = email}))

C7_NotifiedAreMatched ==
    [][/\ \A p \in Req :
            /\ req[p].pc = "find_donors" /\ Stepped(p) =>
                  LET matched == C7_Matched(req'[p])
                  IN  /\ \A k \in 1..Len(matched) :
                            \E i \in 1..Len(users) :
                                /\ users[i] = matched[k]
                                /\ C7_Eligible(users[i], req[p].alert, now)
                      /\ \A k, l \in 1..Len(matched) :
                            k # l => matched[k].id # matched[l].id
            /\ Answers(p, "create_blood_alert") /\ req'[p].status = 200 =>
                  LET matched == C7_Matched(req[p])
                  IN  /\ req[p].pc \in {"find_donors", "send_email"}
                      /\ \A i \in 1..Len(users) :
                            C7_Notified(email_notifications', req[p].alert.id, users[i].email)
                              = Cardinality({k \in 1..Len(matched) :
                                               matched[k].email = users[i].email})
       /\ email_notifications' # email_notifications =>
            \E p \in Req :
                /\ req[p].pc = "send_email" /\ Stepped(p)
                /\ \E n \in BagToSet(email_notifications') :
                      /\ email_notifications' = email_notifications (+) SetToBag({n})
                      /\ n.alert_id = req[p].alert.id
                      /\ n.to_email = req[p].matching_donors[req[p].i].email]_vars

\* an alert for which one donor was notified while another donor of the same
\* blood type, whose last donation was too recent, was not
C7_Witness ==
    \E k \in 1..Len(blood_alerts), i, j \in 1..Len(users) :
        /\ users[i].role = "donor" /\ users[j].role = "donor"
        /\ users[i].blood_type = users[j].blood_type
        /\ users[j].is_available = TRUE /\ users[j].last_donation_date # Null
        /\ C7_Notified(email_notifications, blood_alerts[k].id, users[i].email) = 1
        /\ C7_Notified(email_notifications, blood_alerts[k].id, users[j].email) = 0
        /\ \A p \in Req : ~InFlight(p, "create_blood_alert")

(* C8: the matching query of an alert returns every available donor of the *)
(* alert's blood type who registered without a last donation date.         *)
(* The statement is violated: register stores last_donation_date as null,  *)
(* and neither branch of the query's $or selects a document whose field is *)
(* present and null.                                                       *)

C8_NeverDonatedAreMatched ==
    [][\A p \in Req :
          req[p].pc = "find_donors" /\ Stepped(p) =>
              \A i \in 1..Len(users) :
                  /\ users[i].role = "donor"
                  /\ users[i].is_available = TRUE
                  /\ users[i].last_donation_date = Null
                  /\ users[i].blood_type = Some(req[p].alert.blood_type)
                  => \E k \in 1..Len(C7_Matched(req'[p])) :
                         C7_Matched(req'[p])[k] = users[i]]_vars

(* C9: every stored alert has an expires_at that is not earlier than its   *)
(* created_at plus 2 hours when its urgency_level is "critical", 6 hours   *)
(* when it is "high" and 24 hours otherwise, and not later than the        *)
(* current time plus that offset.                                          *)

C9_Offset(alert) ==
    IF alert.urgency_level = "critical" THEN 2
    ELSE IF alert.urgency_level = "high" THEN 6 ELSE 24

C9_ExpiryByUrgency ==
    \A k \in 1..Len(blood_alerts) :
        LET alert == blood_alerts[k]
        IN  /\ alert.expires_at # Null
            /\ alert.created_at <= now
            /\ Val(alert.expires_at) >= alert.created_at + C9_Offset(alert)
            /\ Val(alert.expires_at) <= now + C9_Offset(alert)

\* a stored alert of urgency "high" that expires 6 hours after its creation
C9_Witness ==
    \E k \in 1..Len(blood_alerts) :
        /\ blood_alerts[k].urgency_level = "high"
        /\ blood_alerts[k].expires_at = Some(blood_alerts[k].created_at + 6)

(* C10: every stored alert has status "active", and no step changes or     *)
(* removes a stored alert.                                                 *)

C10_AlertsImmutable ==
    /\ [](\A i \in 1..Len(blood_alerts) : blood_alerts[i].status = "active")
    /\ [][/\ Len(blood_alerts') >= Len(blood_alerts)
          /\ \A i \in 1..Len(blood_alerts) : blood_alerts'[i] = blood_alerts[i]]_vars

\* an alert that a donor has accepted and another request has declined
C10_Witness ==
    \E i \in 1..Len(blood_alerts) :
        /\ blood_alerts[i].status = "active"
        /\ \E d \in BagToSet(donor_responses) :
              d.alert_id = blood_alerts[i].id /\ d.response = "available"
        /\ \E d \in BagToSet(donor_responses) :
              d.alert_id = blood_alerts[i].id /\ d.response # "available"

(* C11: a stored donor response and a stored mock email notification are   *)
(* never modified or deleted: in every step each record of                 *)
(* donor_responses and of email_notifications is still stored afterwards,  *)
(* with at least as many copies.                                           *)

C11_RecordsKept ==
    [][/\ \A d \in BagToSet(donor_responses) :
              CopiesIn(d, donor_responses') >= CopiesIn(d, donor_responses)
       /\ \A e \in BagToSet(email_notifications) :
              CopiesIn(e, email_notifications') >= CopiesIn(e, email_notifications)]_vars

\* two notifications and a response are stored and the donor's record has
\* been updated after them
C11_Witness ==
    /\ BagCardinality(email_notifications) >= 2
    /\ BagCardinality(donor_responses) >= 1
    /\ \E p \in Req : Answered(p, "respond_to_alert") /\ req[p].status = 200

(* C12: no two stored users have the same email, under any interleaving of *)
(* register requests (a register request whose email is already stored is  *)
(* answered 400 and stores nothing).                                       *)
(* Two register requests with one email that both run their lookup before  *)
(* either inserts both insert: the statement is violated.                  *)

C12_UniqueEmails ==
    \A i, j \in 1..Len(users) : users[i].email = users[j].email => i = j

(* C13: a register request either carries a body that passes the role      *)
(* validation (role hospital_staff with a non-empty hospital_name, or role *)
(* donor with non-empty blood_type and city) or is answered 400 and stores *)
(* nothing; every user about to be stored and every stored user has such a *)
(* body.                                                                   *)

C13_ValidUser(u) ==
    \/ /\ u.role = "hospital_staff"
       /\ u.hospital_name \notin {Null, Some("")}
    \/ /\ u.role = "donor"
       /\ u.blood_type \notin {Null, Some("")}
       /\ u.city \notin {Null, Some("")}

C13_InvalidRegistrationRejected ==
    /\ [](\A i \in 1..Len(users) : C13_ValidUser(users[i]))
    /\ [][\A p \in Req :
            Free(p) /\ Stepped(p) /\ req'[p].ep = "register" =>
                \/ /\ req'[p].pc = "insert_user"
                   /\ C13_ValidUser(req'[p].user_dict)
                \/ /\ req'[p].pc = "done"
                   /\ req'[p].status = 400
                   /\ UNCHANGED db]_vars

\* a donor without a city has been turned away while a user is stored
C13_Witness ==
    /\ Len(users) >= 1
    /\ \E p \in Req :
          /\ Answered(p, "register")
          /\ req[p].status = 400
          /\ req[p].detail = "Blood type and city are required for donors"

(* C14: login answers 200 with an access token for the given email and the *)
(* stored user exactly when the lookup by the given email finds a user     *)
(* whose stored hash the given password verifies against; otherwise it     *)
(* answers 401 with one detail for an unknown email and for a wrong        *)
(* password; login changes no collection.                                  *)

C14_Credentials(login_data) ==
    \E i \in 1..Len(users) :
        /\ users[i].email = login_data.email
        /\ \A j \in 1..(i - 1) : users[j].email # login_data.email
        /\ users[i].password = get_password_hash(login_data.password)

C14_Stored(login_data) ==
    CHOOSE i \in 1..Len(users) :
        /\ users[i].email = login_data.email
        /\ \A j \in 1..(i - 1) : users[j].email # login_data.email

C14_LoginByCredentials ==
    [][\A p \in Req :
          Answers(p, "login") =>
              LET r == req'[p]
              IN  /\ UNCHANGED db
                  /\ IF C14_Credentials(r.login_data)
                     THEN /\ r.status = 200
                          /\ r.tok = create_access_token(r.login_data.email, now)
                          /\ r.user = Some(ToUser(users[C14_Stored(r.login_data)]))
                     ELSE /\ r.status = 401
                          /\ r.detail = "Invalid email or password"
                          /\ r.tok = NoToken
                          /\ r.user = Null]_vars

\* a login of the stored donor has succeeded and a login with the stored
\* hospital email and a wrong password has failed
C14_Witness ==
    /\ \E p \in Req :
          /\ Answered(p, "login") /\ req[p].status = 200
          /\ req[p].login_data.email = "d3@x"
    /\ \E p \in Req :
          /\ Answered(p, "login") /\ req[p].status = 401
          /\ req[p].login_data = [email |-> "h1@x", password |-> "guess"]
          /\ \E i \in 1..Len(users) : users[i].email = "h1@x"

\* a login has succeeded with a password that differs from the registered
\* one after its 72nd byte
C14_WitnessLong ==
    \E p \in Req :
       /\ Answered(p, "login") /\ req[p].status = 200
       /\ req[p].login_data = [email |-> "l1@x", password |-> Bytes72 \o "B"]

(* C15: a token issued by register or login for a user authenticates as    *)
(* that user: when a slot holds a successful register or login answer and  *)
(* a GET /me request carrying the issued token is answered before the      *)
(* token's expiry, the answer is 200 with the stored record that has the   *)
(* id, email and role of the user of the register or login answer.         *)
(* When two register requests with one email have both inserted, the token *)
(* of the second authenticates as the first record: the statement is       *)
(* violated.                                                               *)

C15_TokenAuthenticatesOwner ==
    [][\A p, q \in Req :
          /\ p # q
          /\ Answered(p, "register") \/ Answered(p, "login")
          /\ req[p].status = 200
          /\ Answers(q, "get_current_user_info")
          /\ req'[q].tok = req[p].tok
          /\ now < Val(req[p].tok.exp)
          => /\ req'[q].status = 200
             /\ Val(req'[q].user).id = Val(req[p].user).id
             /\ Val(req'[q].user).email = Val(req[p].user).email
             /\ Val(req'[q].user).role = Val(req[p].user).role
             /\ \E i \in 1..Len(users) : req'[q].user = Some(ToUser(users[i]))]_vars

(* C16: every donor response stored by respond_to_alert carries the id,    *)
(* name, email and phone of the authenticated donor who sent the request   *)
(* (the stored user the token's email resolves to), the alert_id of the    *)
(* path and the response and message of the body; get_alert_responses      *)
(* returns the stored responses of the alert of its path, newest first.    *)

C16_Sender(d, p) ==
    /\ d.donor_email = Val(req[p].tok.sub)
    /\ \E i \in 1..Len(users) :
          /\ users[i].id = d.donor_id
          /\ users[i].role = "donor"
          /\ users[i].email = d.donor_email
          /\ users[i].name = d.donor_name
          /\ users[i].phone = d.donor_phone
    /\ d.alert_id = req[p].alert_id
    /\ d.response = req[p].data.response
    /\ d.message = req[p].data.message

C16_ResponseCarriesDonor ==
    [][/\ donor_responses' # donor_responses =>
            \E p \in Req :
               /\ InFlight(p, "respond_to_alert")
               /\ Stepped(p)
               /\ \E d \in BagToSet(donor_responses') :
                     /\ donor_responses' = donor_responses (+) SetToBag({d})
                     /\ C16_Sender(d, p)
       /\ \A p \in Req :
             Answers(p, "get_alert_responses") /\ req'[p].status = 200 =>
                 /\ IsNewestFirst(req'[p].body, "responded_at")
                 /\ \A d \in ListDocs(req'[p].body) :
                       /\ d.alert_id = req'[p].alert_id
                       /\ ListCopies(d, req'[p].body) = CopiesIn(d, donor_responses)]_vars

\* the hospital has been returned a response with the donor's phone and message
C16_Witness ==
    \E p \in Req :
       /\ Answered(p, "get_alert_responses")
       /\ req[p].status = 200
       /\ \E d \in ListDocs(req[p].body) :
             /\ d.donor_email = "d3@x"
             /\ d.donor_phone = Some("555-3")
             /\ d.message = Some("on my way")

\* the hospital has been returned two responses of different hours, the
\* later one first, one of them with the donor's phone and message
C16_WitnessNewestFirst ==
    \E p \in {1} :
       /\ Answered(p, "get_alert_responses")
       /\ req[p].status = 200
       /\ Len(req[p].body) = 2
       /\ req[p].body[1].responded_at > req[p].body[2].responded_at
       /\ req[p].body[1].donor_email # req[p].body[2].donor_email
       /\ \E k \in 1..2 :
             /\ req[p].body[k].donor_email = "d3@x"
             /\ req[p].body[k].donor_phone = Some("555-3")
             /\ req[p].body[k].message = Some("on my way")

(* C17: get_blood_alerts returns to a hospital-staff caller only stored    *)
(* alerts whose hospital_id is the caller's id, at most 100, and to any    *)
(* other caller only stored alerts with status "active" and the caller's   *)
(* blood type, at most 50; in both cases newest first, whatever the        *)
(* caller's availability and the alerts' expiry.                           *)

C17_Listed(user, alert) ==
    IF user.role = "hospital_staff"
    THEN alert.hospital_id = user.id
    ELSE alert.status = "active" /\ Some(alert.blood_type) = user.blood_type

C17_AlertsOfCaller ==
    [][\A p \in {1} :
          Answers(p, "get_blood_alerts") /\ req'[p].status = 200 =>
              LET user == Val(req'[p].user)
                  body == req'[p].body
              IN  /\ Len(body) <= IF user.role = "hospital_staff"
                                  THEN StaffAlertLimit ELSE DonorAlertLimit
                  /\ \A k \in 1..Len(body) :
                        /\ \E i \in 1..Len(blood_alerts) : blood_alerts[i] = body[k]
                        /\ C17_Listed(user, body[k])
                  /\ \A k \in 1..(Len(body) - 1) :
                        body[k].created_at >= body[k + 1].created_at]_vars

\* a donor who is no longer available is listed an expired alert of their
\* blood type, and not the stored alert of another blood type
C17_Witness ==
    /\ \E i \in 1..Len(blood_alerts) : blood_alerts[i].blood_type = "B+"
    /\ \E p \in {1} :
          /\ Answered(p, "get_blood_alerts")
          /\ req[p].status = 200
          /\ Val(req[p].user).role = "donor"
          /\ Val(req[p].user).is_available = FALSE
          /\ Len(req[p].body) = 1
          /\ Val(req[p].body[1].expires_at) < now

\* a hospital is listed its two alerts, the newer one first, while another
\* hospital is registered
C17_WitnessStaff ==
    /\ \E i \in 1..Len(users) : users[i].email = "h2@x"
    /\ \E p \in {1} :
          /\ Answered(p, "get_blood_alerts")
          /\ req[p].status = 200
          /\ Val(req[p].user).email = "h1@x"
          /\ Len(req[p].body) = 2
          /\ req[p].body[1].created_at > req[p].body[2].created_at

(* C18: for a donor caller get_mock_emails returns only stored             *)
(* notifications whose to_email is the caller's own email, the email of    *)
(* the caller's token, newest first.                                       *)

C18_OwnEmailsOnly ==
    [][\A p \in {1} :
          /\ Answers(p, "get_mock_emails")
          /\ req'[p].status = 200
          /\ Val(req'[p].user).role = "donor"
          => /\ Val(req'[p].user).email = Val(req'[p].tok.sub)
             /\ IsNewestFirst(req'[p].body, "sent_at")
             /\ \A e \in ListDocs(req'[p].body) :
                   /\ e.to_email = Val(req'[p].user).email
                   /\ ListCopies(e, req'[p].body) <= CopiesIn(e, email_notifications)]_vars

\* a donor is returned their notification while a notification to another
\* donor is stored
C18_Witness ==
    \E p \in {1} :
       /\ Answered(p, "get_mock_emails")
       /\ req[p].status = 200
       /\ Val(req[p].user).role = "donor"
       /\ Len(req[p].body) >= 1
       /\ \E e \in BagToSet(email_notifications) : e.to_email # Val(req[p].user).email

\* a donor is returned their two notifications of different hours, the later
\* one first, while a notification to another donor is stored
C18_WitnessNewestFirst ==
    \E p \in {1} :
       /\ Answered(p, "get_mock_emails")
       /\ req[p].status = 200
       /\ Val(req[p].user).role = "donor"
       /\ Len(req[p].body) = 2
       /\ req[p].body[1].sent_at > req[p].body[2].sent_at
       /\ \E e \in BagToSet(email_notifications) : e.to_email # Val(req[p].user).email

(* C19: for a hospital-staff caller get_dashboard_stats returns            *)
(* total_alerts equal to the number of stored alerts of the caller,        *)
(* active_alerts equal to the number of those with status "active", and    *)
(* total_responses equal to the number of stored donor responses whose     *)
(* alert belongs to the caller.                                            *)
(* The aggregate keeps at most GroupLimit groups of equal response texts:  *)
(* with more different texts than that the sum leaves responses out and    *)
(* the statement is violated.                                              *)

C19_OwnAlerts(user) ==
    {i \in 1..Len(blood_alerts) : blood_alerts[i].hospital_id = user.id}

C19_OwnResponses(user) ==
    Restrict(donor_responses,
        {d \in BagToSet(donor_responses) :
            \E i \in C19_OwnAlerts(user) : blood_alerts[i].id = d.alert_id})

C19_HospitalStats ==
    [][\A p \in {1} :
          /\ Answers(p, "get_dashboard_stats")
          /\ req'[p].status = 200
          /\ Val(req'[p].user).role = "hospital_staff"
          => LET user == Val(req'[p].user)
                 body == req'[p].body
             IN  /\ body.total_alerts = Cardinality(C19_OwnAlerts(user))
                 /\ body.active_alerts =
                        Cardinality({i \in C19_OwnAlerts(user) :
                                        blood_alerts[i].status = "active"})
                 /\ body.total_responses = BagCardinality(C19_OwnResponses(user))]_vars

(* C20: a step changes the users collection only by storing the user of a  *)
(* register request, or as the answering step of a successful              *)
(* respond_to_alert request with response "available", which changes only  *)
(* the is_available and last_donation_date fields of the record with the   *)
(* responding donor's id; every other step, and every request answered     *)
(* with an error, leaves users unchanged.                                  *)

C20_Registers(p) ==
    /\ InFlight(p, "register")
    /\ Answers(p, "register")
    /\ req'[p].status = 200
    /\ Len(users') = Len(users) + 1
    /\ SubSeq(users', 1, Len(users)) = users

C20_Accepts(p) ==
    /\ InFlight(p, "respond_to_alert")
    /\ req[p].data.response = "available"
    /\ Answers(p, "respond_to_alert")
    /\ req'[p].status = 200
    /\ Len(users') = Len(users)
    /\ \A i \in 1..Len(users) :
          /\ DOMAIN users'[i] = DOMAIN users[i]
          /\ \A f \in DOMAIN users[i] \ {"is_available", "last_donation_date"} :
                users'[i][f] = users[i][f]
          /\ users'[i] # users[i] => users[i].id = Val(req[p].user).id

C20_UsersFrame ==
    [][/\ users' # users => \E p \in Req : C20_Registers(p) \/ C20_Accepts(p)
       /\ \A p \in Req :
             Stepped(p) /\ req'[p].pc = "done" /\ req'[p].status # 200 =>
                 users' = users]_vars

\* a donor's record has been updated by an accepted response, next to a
\* hospital's record, and a request has been answered with an error
C20_Witness ==
    /\ \E i, j \in 1..Len(users) :
          /\ users[i].role = "donor"
          /\ users[i].is_available = FALSE
          /\ users[j].role = "hospital_staff"
    /\ \E p \in Req : req[p].pc = "done" /\ req[p].status \in {400, 401, 403, 404}

-----------------------------------------------------------------------------
(* C21: get_alert_details returns the stored alert with the requested id   *)
(* to any authenticated user, whatever the caller's role, blood type or    *)
(* hospital, and fails with status 404 when no alert has that id; it       *)
(* changes no collection.                                                  *)

C21_Stored(alert_id) == {i \in 1..Len(blood_alerts) : blood_alerts[i].id = alert_id}

C21_DetailsToAnyUser ==
    [][\A p \in {1} :
          Stepped(p) /\ req'[p].pc # "idle" /\ req'[p].ep = "get_alert_details" =>
              /\ UNCHANGED db
              /\ req'[p].pc = "done" /\ req'[p].user # Null =>
                    LET S == C21_Stored(req'[p].alert_id)
                    IN  IF S = {}
                        THEN /\ req'[p].status = 404
                             /\ req'[p].detail = "Alert not found"
                        ELSE /\ req'[p].status = 200
                             /\ \E i \in S : req'[p].body = blood_alerts[i]]_vars

\* a donor is returned an alert of another blood type, and the staff of
\* another hospital would be too
C21_Witness ==
    \E p \in {1} :
       /\ Answered(p, "get_alert_details")
       /\ req[p].status = 200
       /\ Val(req[p].user).role = "donor"
       /\ Some(req[p].body.blood_type) # Val(req[p].user).blood_type
       /\ req[p].body.id = req[p].alert_id

\* the staff of one hospital is returned the alert of another hospital
C21_WitnessStaff ==
    \E p \in {1} :
       /\ Answered(p, "get_alert_details")
       /\ req[p].status = 200
       /\ Val(req[p].user).role = "hospital_staff"
       /\ req[p].body.hospital_id # Val(req[p].user).id

\* an authenticated caller is answered 404 for an id that is not stored
C21_WitnessNotFound ==
    \E p \in {1} :
       /\ Answered(p, "get_alert_details")
       /\ req[p].status = 404
       /\ req[p].user # Null
       /\ Len(blood_alerts) > 0

-----------------------------------------------------------------------------
(* C22: in every reachable state, the states between the two writes of     *)
(* respond_to_alert included, a donor who has a stored response with value *)
(* "available" has is_available = FALSE, so that no matching query that    *)
(* runs after the response record is stored selects that donor.            *)

C22_Accepted(donor_id) ==
    \E d \in BagToSet(donor_responses) :
        d.donor_id = donor_id /\ d.response = "available"

C22_AcceptedImpliesUnavailable ==
    \A i \in 1..Len(users) :
        C22_Accepted(users[i].id) => users[i].is_available = FALSE

\* the second half of the sentence: no matching query selects a donor whose
\* acceptance is stored
C22_NoLateMatch ==
    [][\A p \in Req :
          req[p].pc = "find_donors" /\ Stepped(p) /\ req'[p].pc = "send_email" =>
              \A k \in 1..Len(req'[p].matching_donors) :
                  ~C22_Accepted(req'[p].matching_donors[k].id)]_vars

-----------------------------------------------------------------------------
(* C23: a user's is_available flag starts TRUE at registration and never   *)
(* changes from FALSE back to TRUE; a matching query selects no user whose *)
(* flag is FALSE, so a donor whose acceptance has been applied is notified *)
(* for no alert created afterwards, however much time has passed since the *)
(* donation.                                                               *)

C23_AvailabilityIsOneWay ==
    [][/\ \A i \in 1..Len(users') :
             IF i \in 1..Len(users)
             THEN users[i].is_available = FALSE => users'[i].is_available = FALSE
             ELSE users'[i].is_available = TRUE
       /\ Len(users') >= Len(users)
       /\ \A p \in Req :
             req[p].pc = "find_donors" /\ Stepped(p) /\ req'[p].pc = "send_email" =>
                 \A k \in 1..Len(req'[p].matching_donors) :
                    \A i \in UsersWithId(users, req'[p].matching_donors[k].id) :
                        users[i].is_available = TRUE]_vars

\* a donor's acceptance was applied, more than 90 days have passed since, and
\* a later alert of the donor's blood type was created and answered without a
\* notification to the donor
C23_Witness ==
    \E i \in 1..Len(users), j \in 1..Len(blood_alerts) :
       /\ users[i].role = "donor"
       /\ users[i].is_available = FALSE
       /\ users[i].blood_type = Some(blood_alerts[j].blood_type)
       /\ Val(users[i].last_donation_date) >= 0
       /\ Val(users[i].last_donation_date) < blood_alerts[j].created_at - CooldownDays * 24
       /\ \A p \in Req : ~InFlight(p, "create_blood_alert")
       /\ C7_Notified(email_notifications, blood_alerts[j].id, users[i].email) = 0

------------------------------------------------------------------------\* a request whose token was decoded at hour 0 has had its user looked up
\* after the 90 days: its alert is created after the token's expiry
C23_WitnessLateLookup ==
    \E p \in Req :
       /\ req[p].pc = "insert_alert"
       /\ req[p].tok = TokenFor("h1@x")
       /\ req[p].alert.created_at >= Val(req[p].tok.exp)

\* after the 90 days a request with the token issued at hour 0 to a stored
\* user has been answered 401: the token has expired
C23_WitnessExpired ==
    \E p \in Req :
       /\ req[p].pc = "done"
       /\ req[p].status = 401
       /\ req[p].detail = "Invalid authentication credentials"
       /\ req[p].tok = TokenFor("d3@x")
       /\ \E i \in 1..Len(users) : users[i].email = "d3@x"

-----
(* C24: in every reachable state, the intermediate states of               *)
(* create_blood_alert included, every mock email notification and every    *)
(* donor response has an alert_id that is the id of a stored alert; every  *)
(* donor response's donor_id is the id of a stored user with role donor;   *)
(* and every notification's to_email is the email of a stored donor whose  *)
(* blood type equals the blood type of the referenced alert.               *)

C24_ReferencesAreStored ==
    /\ \A d \in BagToSet(donor_responses) :
          /\ d.alert_id \in AlertIds
          /\ \E i \in 1..Len(users) : users[i].id = d.donor_id /\ users[i].role = "donor"
    /\ \A n \in BagToSet(email_notifications) :
          \E j \in 1..Len(blood_alerts) :
             /\ blood_alerts[j].id = n.alert_id
             /\ \E i \in 1..Len(users) :
                   /\ users[i].email = n.to_email
                   /\ users[i].role = "donor"
                   /\ users[i].blood_type = Some(blood_alerts[j].blood_type)

\* a response is stored while the alert's request is still sending its
\* notifications, one of which is stored
C24_Witness ==
    /\ donor_responses # EmptyBag
    /\ email_notifications # EmptyBag
    /\ \E p \in Req : InFlight(p, "create_blood_alert") /\ req[p].pc = "send_email"

-----------------------------------------------------------------------------
(* C25: for a hospital-staff caller the dashboard statistics satisfy       *)
(* total_responses = available_responses + not_available_responses and     *)
(* active_alerts <= total_alerts, after any sequence of respond_to_alert   *)
(* requests with any response values.                                      *)

C25_StaffAnswer(p) ==
    /\ Answered(p, "get_dashboard_stats")
    /\ req[p].status = 200
    /\ Val(req[p].user).role = "hospital_staff"

C25_StaffStatsAddUp ==
    \A p \in {1} :
       C25_StaffAnswer(p) =>
           /\ req[p].body.total_responses =
                  req[p].body.available_responses + req[p].body.not_available_responses
           /\ req[p].body.active_alerts <= req[p].body.total_alerts

\* the second half alone: the answers of SpecStats, one request at a time,
\* satisfy it; under SpecDashboard an alert stored between the two counts
\* makes active_alerts exceed total_alerts
C25_ActiveAtMostTotal ==
    \A p \in Req :
       C25_StaffAnswer(p) => req[p].body.active_alerts <= req[p].body.total_alerts

-----------------------------------------------------------------------------
(* C26: a donor who registers with both a latitude and a longitude (any    *)
(* numeric values, 0 included) is stored with a GeoJSON location of type   *)
(* "Point" whose coordinates are [longitude, latitude]; a hospital-staff   *)
(* user, or a donor who gives neither coordinate, is stored without a      *)
(* location.                                                               *)

C26_Point(u) ==
    [type |-> "Point", coordinates |-> <<Val(u.longitude), Val(u.latitude)>>]

C26_LocationStored ==
    \A i \in 1..Len(users) :
       LET u == users[i]
       IN  /\ u.role = "donor" /\ u.latitude # Null /\ u.longitude # Null =>
                 "location" \in DOMAIN u /\ u.location = C26_Point(u)
           /\ u.role = "hospital_staff"
                 \/ (u.role = "donor" /\ u.latitude = Null /\ u.longitude = Null) =>
                 "location" \notin DOMAIN u

\* the same with "both coordinates are given and neither is 0"
C26_LocationStoredUnlessZero ==
    \A i \in 1..Len(users) :
       LET u == users[i]
       IN  IF u.role = "donor" /\ TruthyNum(u.latitude) /\ TruthyNum(u.longitude)
           THEN "location" \in DOMAIN u /\ u.location = C26_Point(u)
           ELSE "location" \notin DOMAIN u

-----------------------------------------------------------------------------
(* C27: respond_to_alert checks in a fixed order and writes nothing on     *)
(* failure: a caller who is not a donor is answered 403 whether or not the *)
(* alert exists; a donor naming an alert id that is not stored is answered *)
(* 404; only then is the duplicate check applied (400).  A donor with no   *)
(* response to an existing alert at that check goes on to store the        *)
(* response and is answered 200, whatever the donor's blood type or        *)
(* availability and whatever the alert's status or expiry.                 *)

\* the number of stored responses of the donor to the alert after the step
C27_CountAfter(alert_id, donor_id) ==
    BagCardinality(Restrict(donor_responses',
        {d \in BagToSet(donor_responses') :
            d.alert_id = alert_id /\ d.donor_id = donor_id}))

C27_ChecksInOrder ==
    [][\A p \in Req :
          Stepped(p) /\ req'[p].pc # "idle" /\ req'[p].ep = "respond_to_alert" =>
              \* users.find_one of the dependency and the role check
              /\ req[p].pc = "find_user" /\ req'[p].user # Null =>
                    IF Val(req'[p].user).role # "donor"
                    THEN req'[p].pc = "done" /\ req'[p].status = 403
                    ELSE req'[p].pc = "find_alert"
              \* the existence check
              /\ req[p].pc = "find_alert" =>
                    IF req[p].alert_id \in AlertIds
                    THEN req'[p].pc = "find_response"
                    ELSE req'[p].pc = "done" /\ req'[p].status = 404
              \* the duplicate check
              /\ req[p].pc = "find_response" =>
                    IF ResponseCount(req[p].alert_id, Val(req[p].user).id) >= 1
                    THEN req'[p].pc = "done" /\ req'[p].status = 400
                    ELSE req'[p].pc = "insert_response"
              \* past the checks the response is stored and the answer is 200
              /\ req[p].pc = "insert_response" =>
                    /\ C27_CountAfter(req[p].alert_id, Val(req[p].user).id) =
                          ResponseCount(req[p].alert_id, Val(req[p].user).id) + 1
                    /\ req'[p].pc = "update_user"
                         \/ (req'[p].pc = "done" /\ req'[p].status = 200)
              /\ req[p].pc = "update_user" =>
                    req'[p].pc = "done" /\ req'[p].status = 200
              \* nothing is written on failure
              /\ req'[p].pc = "done" /\ req'[p].status # 200 => UNCHANGED db
              /\ req[p].pc \notin {"insert_response", "update_user"} => UNCHANGED db]_vars

\* a donor who is no longer available has stored a response to an alert that
\* had expired, beside a first response to another alert
C27_Witness ==
    \E p \in Req :
       /\ InFlight(p, "respond_to_alert")
       /\ req[p].pc = "update_user"
       /\ \E i \in UsersWithId(users, Val(req[p].user).id) : users[i].is_available = FALSE
       /\ \E j \in 1..Len(blood_alerts) :
             /\ blood_alerts[j].id = req[p].alert_id
             /\ Val(blood_alerts[j].expires_at) < Val(req[p].set.last_donation_date)
       /\ ResponseCount(req[p].alert_id, Val(req[p].user).id) = 1

\* the staff of a hospital was answered 403 for an id that is not stored
C27_WitnessStaff ==
    \E p \in Req :
       /\ Answered(p, "respond_to_alert")
       /\ req[p].status = 403
       /\ Len(blood_alerts) = 0

\* an unavailable donor has stored a response to an alert of another blood type
C27_WitnessBloodType ==
    \E p \in Req :
       /\ InFlight(p, "respond_to_alert")
       /\ req[p].pc = "update_user"
       /\ \E i \in UsersWithId(users, Val(req[p].user).id) :
             /\ users[i].is_available = FALSE
             /\ \E j \in 1..Len(blood_alerts) :
                   /\ blood_alerts[j].id = req[p].alert_id
                   /\ Some(blood_alerts[j].blood_type) # users[i].blood_type

====
